---- MODULE Spec2Model ----
(***************************************************************************)
(* Sui <-> Ethereum atomic-swap bridge.                                    *)
(*                                                                         *)
(* Part 1: the Sui escrow (sui_eth_resolver::escrow), one shared Escrow<T> *)
(* object with its SrcImmutables, its two balances and its is_completed    *)
(* flag, driven by create / deposit / withdraw / cancel transactions and   *)
(* by the ledger clock.  A Move abort reverts the whole transaction, so an *)
(* aborting call changes nothing but the recorded outcome of the call.     *)
(*                                                                         *)
(* Part 2: the Ethereum-side coordinator (contract SuiResolver): the live  *)
(* secret stores, the Sui-escrow/order mapping and the revealed-secret     *)
(* flags, driven by external calls and by the block timestamp.  A revert   *)
(* undoes every storage write of the transaction.                          *)
(*                                                                         *)
(* Part 3: the bidirectional coordinator (contract                         *)
(* SuiResolverBidirectional), which repeats the live-secret stores and     *)
(* coordinateSecretFromSui of SuiResolver word for word and adds the       *)
(* Ethereum-to-Sui direction: orders initiated on Ethereum, their link to  *)
(* a Sui escrow, the secret revealed on Ethereum and its use on Sui.       *)
(*                                                                         *)
(* Part 4: the Sui proof verifier (contract SuiVerifier): the memoized     *)
(* verified checkpoints and verified transactions, written by              *)
(* verifySuiCheckpoint and verifySuiTransaction.                           *)
(*                                                                         *)
(* Part 5: the partial-fill orders of sui_eth_resolver::lop_order: the     *)
(* Merkle tree over the hashed secrets of an order, its proofs, and the    *)
(* PartialFillLOPOrder value that execute_partial_fill updates.            *)
(*                                                                         *)
(* Part 6: the shared Resolver object of sui_eth_resolver::resolver, whose *)
(* owner deploys escrows and deposits into them.                           *)
(***************************************************************************)
EXTENDS Integers, Sequences, FiniteSets, TLC

(* ---------------------------------------------------------------- bounds *)

\* timelock schedules start at an offset of 0..MaxLock seconds
MaxLock == 1
\* the clock runs from 0 to MaxTime seconds
MaxTime == 4
\* largest value of a coin, and of a balance the escrow is let to hold
MaxBalance == 2

\* Sui escrow ids run over 0..MaxId, coordinated secrets over 0..MaxSecret and
\* order hashes over 0..MaxOrder; 0 is bytes32(0)
MaxId == 2
MaxSecret == 1
MaxOrder == 1
\* the secrets rival relayers coordinate for one escrow id run over
\* 0..MaxLiveSecret
MaxLiveSecret == 2
\* order hashes of the Ethereum-to-Sui direction run over 0..MaxLocalOrder
MaxLocalOrder == 2
\* the order hashes the calls draw while the forward direction runs alongside
\* run over 0..MaxSwapOrder
MaxSwapOrder == 1
\* blocks mined after the coordinator's deployment
MaxBlocks == 2
\* longest array handed to batchCoordinateSecrets
MaxBatch == 1
\* checkpoint hashes, transaction hashes and Merkle proof elements run over
\* 0..MaxHash
MaxHash == 1
\* longest validator signature list handed to verifySuiCheckpoint
MaxSigs == 3
\* longest Merkle proof, in 32-byte elements, handed to verifySuiTransaction
MaxPath == 1
\* longest list of secrets handed to create_merkle_tree
MaxLeaves == 3
\* execute_partial_fill is followed while the accumulated fill_percentage
\* stays within MaxFilled
MaxFilled == 20000

(* ----------------------------------------------------- program constants *)

E_ESCROW_COMPLETED == 0
E_UNAUTHORIZED == 1
E_INVALID_SECRET == 2
E_TIME_LOCK_NOT_EXPIRED == 3
\* escrow.move divides the clock's milliseconds by 1000
MsPerSecond == 1000
\* SuiResolver.COORDINATION_TIMEOUT, in seconds
COORDINATION_TIMEOUT == 3600
\* SuiVerifier.STAKE_THRESHOLD, in basis points
STAKE_THRESHOLD == 6667
\* the factor verifySuiCheckpoint puts on the signed stake
BASIS_POINTS == 10000
\* the lengths _verifyEd25519Signature asks of a signature and of a public key
SIGNATURE_LENGTH == 64
PUBLIC_KEY_LENGTH == 32
\* lop_order.move
E_INVALID_MERKLE_PROOF == 101
E_PARTIAL_FILLS_NOT_ALLOWED == 102
E_INVALID_FILL_PERCENTAGE == 103
E_SECRET_INDEX_OUT_OF_BOUNDS == 104
E_EMPTY_SECRETS_LIST == 105
\* basis points of a complete fill
FULL_FILL == 10000
\* resolver.move: E_UNAUTHORIZED of module resolver
RESOLVER_E_UNAUTHORIZED == 0

(* ------------------------------------------------------------ input sets *)

\* transaction senders
Addr == {"a1", "a2", "a3"}
\* immutables.maker and immutables.taker: the same address or two addresses,
\* which leaves a third address that is neither
Makers == {"a1"}
Takers == {"a1", "a2"}

\* preimages (byte vectors)
Secrets == {<<1>>, <<2>>}

\* sui::hash::keccak256 on byte vectors: collision-free on the vectors the
\* model uses, never the identity, and a digest is itself a byte vector that
\* can be handed in as a "secret".
Keccak256(bytes) == <<0>> \o bytes

\* the hash locks an escrow is created with
HashLocks == {Keccak256(<<1>>)}

\* byte vectors a caller may present to withdraw: the preimages and the
\* (public) digests themselves
SecretInputs == Secrets \cup HashLocks

\* principal and safety deposit the immutables announce
Amounts == {1}

\* types::create_time_locks stores the seven offsets it is given, ordered or
\* not; the escrow reads only the src_* ones.
create_time_locks(w, pw, c, pc, dw, dpw, dc) ==
    [src_withdrawal |-> w, src_public_withdrawal |-> pw,
     src_cancellation |-> c, src_public_cancellation |-> pc,
     dst_withdrawal |-> dw, dst_public_withdrawal |-> dpw, dst_cancellation |-> dc]

\* schedules handed to create: strictly ordered ones (w, w+1, w+2, w+3 on the
\* source side, w, w+1, w+2 on the destination side) and the same offsets in
\* reverse order
TimeLockChoices ==
    {create_time_locks(w, w + 1, w + 2, w + 3, w, w + 1, w + 2) : w \in 0..MaxLock}
    \cup {create_time_locks(w + 3, w + 2, w + 1, w, w + 2, w + 1, w) : w \in 0..MaxLock}

create_src_immutables(hash_lock, maker, taker, amount, sd, time_locks) ==
    [hash_lock |-> hash_lock, maker |-> maker, taker |-> taker,
     amount |-> amount, safety_deposit |-> sd, time_locks |-> time_locks]

\* field values of the escrow before create has run
NoImmutables == create_src_immutables(<<>>, "a1", "a1", 0, 0, create_time_locks(0, 0, 0, 0, 0, 0, 0))

\* a call that returned normally / aborted with a code
Ok == <<>>
Abort(code) == <<code>>

NoCall == [op |-> "none", sender |-> "a1", secret |-> <<>>, abort |-> Ok]
\* withdraw and cancel return both coins to the calling transaction, whose
\* sender holds them from then on
NoPayout == [op |-> "none", holder |-> "a1", principal |-> 0, safety |-> 0]

\* bytes32 values: Sui escrow ids, secrets and order hashes
EscrowIds == 0..MaxId
SecretWords == 0..MaxSecret
LiveSecretWords == 0..MaxLiveSecret
OrderHashes == 0..MaxOrder
LocalOrders == 0..MaxLocalOrder
SwapOrders == 0..MaxSwapOrder
\* the values of S other than bytes32(0): the arguments drawn for a parameter
\* that no require compares with zero
NonZero(S) == S \ {0}

\* address(0), the value of an unset address slot
NoAddress == "0x0"
\* the initialOwner the constructor hands to Ownable
Owner == "a1"
\* msg.sender of the calls to the coordinator: the owner and one other account
Senders == {"a1", "a2"}
\* msg.sender of the calls that store it (secretCoordinator)
Relayers == {"a2"}

\* block.timestamp when the coordinator is deployed: a real chain's clock is
\* far beyond COORDINATION_TIMEOUT seconds
DeployTime == 2 * COORDINATION_TIMEOUT
\* seconds between two blocks of the model
BlockInterval == COORDINATION_TIMEOUT

\* the strings handed to revealEthereumSecret, one per secret word and one
\* more
SecretStrings == {<<k>> : k \in 1..(MaxSecret + 1)}
\* keccak256(bytes(secret)): the string <<k>> hashes to the word k;
\* collision-free on the strings of the model
keccak256(str) == str[1]

\* ethereumEscrows[orderHash] of an order that was never initiated
NoEscrowData ==
    [orderHash |-> 0, secretHash |-> 0, maker |-> NoAddress, taker |-> NoAddress,
     token |-> NoAddress, amount |-> 0, safetyDeposit |-> 0, createdAt |-> 0,
     isActive |-> FALSE]

\* a transaction that reverted with a reason
Revert(reason) == <<reason>>

\* bytes32 values handed to the verifier: checkpoint hashes, transaction
\* hashes and the elements of a Merkle proof
Hashes == 0..MaxHash

\* the `bytes` a caller presents as ValidatorSignature.signature: the
\* validator's Ed25519 signature of the checkpoint hash, the same with one bit
\* flipped, and the same cut short by a byte
SignatureBytes ==
    {[length |-> SIGNATURE_LENGTH, content |-> "signed"],
     [length |-> SIGNATURE_LENGTH, content |-> "bit flipped"],
     [length |-> SIGNATURE_LENGTH - 1, content |-> "cut short"]}
\* the `bytes` presented as ValidatorSignature.publicKey
PublicKeyBytes == {[length |-> PUBLIC_KEY_LENGTH, content |-> "key"]}
\* ValidatorSignature.stake, which the caller states per signature
Stakes == {3, 4}
ValidatorSignatures ==
    [signature : SignatureBytes, publicKey : PublicKeyBytes, stake : Stakes]

\* the sender of the transaction that publishes the package: resolver::init
\* makes it the owner of the Resolver
Publisher == "a1"
\* the addresses transfer_ownership is asked to make the owner: the Publisher
\* and one other, which leaves a third address that never owns the Resolver
NewOwners == {"a1", "a2"}
\* an abort of module resolver (abort codes are per module)
ResolverAbort(code) == <<code, "resolver">>

\* the lists of secrets handed to create_merkle_tree, the empty one included
SecretLists == UNION {[1..n -> Secrets] : n \in 0..MaxLeaves}
\* before any create_merkle_tree call there is no MerkleTree value
NoMerkleTree == [root |-> <<>>, leaves |-> <<>>, depth |-> 0]
\* the fields of PartialFillLOPOrder that the partial-fill functions read or
\* write, before create_partial_fill_order has run
NoOrder ==
    [making_amount |-> <<>>, merkle_root |-> <<>>, fill_percentage |-> 0,
     secret_index |-> 0, allow_partial_fills |-> FALSE, total_secrets |-> 0]

\* A u64 amount is the sequence of its base-10000 digits, lowest first and
\* without leading zero digits (<<>> is 0): the amounts run up to 2^64 - 1,
\* beyond the integers of the checker.
DIGIT == 10000
\* 2^64 - 1 = 1844 6744 0737 0955 1615
MAX_U64 == <<1615, 955, 737, 6744, 1844>>

\* the digits without leading zero digits
RECURSIVE normal(_)
normal(digits) ==
    IF digits = <<>> THEN <<>>
    ELSE IF digits[Len(digits)] = 0 THEN normal(SubSeq(digits, 1, Len(digits) - 1))
    ELSE digits

\* the digits of amount * k + carry, for an integer k
RECURSIVE times_digits(_, _, _)
times_digits(amount, k, carry) ==
    IF amount = <<>>
    THEN IF carry = 0 THEN <<>>
         ELSE <<carry % DIGIT>> \o times_digits(<<>>, k, carry \div DIGIT)
    ELSE LET p == Head(amount) * k + carry IN
         <<p % DIGIT>> \o times_digits(Tail(amount), k, p \div DIGIT)

\* the mathematical product amount * k
times(amount, k) == normal(times_digits(amount, k, 0))

\* a > b on amounts: more digits, or the same number and the greater digit at
\* the highest place where they differ
RECURSIVE greater(_, _)
greater(a, b) ==
    IF Len(a) # Len(b) THEN Len(a) > Len(b)
    ELSE IF a = <<>> THEN FALSE
    ELSE IF a[Len(a)] # b[Len(b)] THEN a[Len(a)] > b[Len(b)]
    ELSE greater(SubSeq(a, 1, Len(a) - 1), SubSeq(b, 1, Len(b) - 1))

\* the quotient amount / 10000 of u64 division: the lowest digit dropped
div_10000(amount) == IF amount = <<>> THEN <<>> ELSE Tail(amount)

\* base_order.making_amount: a small amount,
\* an amount whose half but not whose whole can be taken in basis points
\* within a u64, and 2^64 - 1
MakingAmounts == {<<3>>, <<0, 0, 0, 2000>>, MAX_U64}
\* fill_percentage arguments: nothing, a half, the whole, and one basis point
\* more than the whole
FillPercentages == {0, FULL_FILL \div 2, FULL_FILL, FULL_FILL + 1}

(* ----------------------------------------------------------------- state *)

VARIABLES
    created,           \* the Escrow object exists (escrow::create has run)
    immutables,        \* Escrow.immutables
    deposited_amount,  \* Escrow.deposited_amount (value of the Balance<T>)
    safety_deposit,    \* Escrow.safety_deposit (value of the Balance<SUI>)
    is_completed,      \* Escrow.is_completed
    clock_ms,          \* sui::clock::timestamp_ms
    t0,                \* clock seconds at which escrow::create ran
    events,            \* the Withdrawn / Cancelled events emitted, in order (the
                       \* EscrowCreated and Deposited events repeat call inputs
                       \* and are not kept)
    last,              \* the most recent call, to the escrow or to a coordinator:
                       \* its inputs and its outcome
    payout,            \* the coins the terminal call returned, and to whom
    \* contract SuiResolver
    liveSecrets,             \* suiEscrowId => secret
    secretCoordinated,       \* secret => coordinated
    secretTimestamp,         \* secret => block.timestamp of its coordination
    secretCoordinator,       \* secret => msg.sender of its coordination
    coordinationStatus,      \* suiEscrowId => status string
    suiEscrowToOrder,        \* suiEscrowId => ethereumOrderHash
    orderToSuiEscrow,        \* ethereumOrderHash => suiEscrowId
    crossChainMappingExists, \* ethereumOrderHash => exists
    revealedSecrets,         \* secret => used
    block_timestamp,         \* block.timestamp of the block being mined
    \* contract SuiResolverBidirectional (which also has the stores of
    \* SuiResolver that coordinateSecretFromSui writes)
    ethereumOrderToSuiEscrow, \* ethereumOrderHash => suiEscrowId
    suiEscrowToEthereumOrder, \* suiEscrowId => ethereumOrderHash
    ethereumOrderExists,      \* ethereumOrderHash => exists
    ethereumEscrows,          \* orderHash => EthereumEscrowData
    ethereumEscrowActive,     \* orderHash => active
    ethereumRevealedSecrets,  \* orderHash => secret
    ethereumSecretTimestamp,  \* orderHash => block.timestamp of the reveal
    secretUsedOnSui,          \* secret => used
    bidirectionalStatus,      \* orderHash => status string
    ethereumInitiator,        \* orderHash => msg.sender of the initiation
    \* contract SuiVerifier
    verifiedCheckpoints,      \* checkpointHash => verified
    verifiedTransactions,     \* transactionHash => verified
    \* sui_eth_resolver::lop_order
    merkle_tree,              \* the MerkleTree the latest create_merkle_tree returned
    partial_order,            \* the PartialFillLOPOrder create_partial_fill_order returned
    \* sui_eth_resolver::resolver
    resolver_owner,           \* Resolver.owner
    owner_coins               \* value of the coins the resolver has transferred to its owner

\* the storage of SuiResolver (pendingCoordination and coordinationAttempts
\* are declared but never written)
coordVars == <<liveSecrets, secretCoordinated, secretTimestamp, secretCoordinator,
               coordinationStatus, suiEscrowToOrder, orderToSuiEscrow,
               crossChainMappingExists, revealedSecrets>>

\* the storage SuiResolverBidirectional adds
bidirVars == <<ethereumOrderToSuiEscrow, suiEscrowToEthereumOrder, ethereumOrderExists,
               ethereumEscrows, ethereumEscrowActive, ethereumRevealedSecrets,
               ethereumSecretTimestamp, secretUsedOnSui, bidirectionalStatus,
               ethereumInitiator>>

\* the storage of SuiVerifier
verifierVars == <<verifiedCheckpoints, verifiedTransactions>>

\* the values of sui_eth_resolver::lop_order
lopVars == <<merkle_tree, partial_order>>

\* the objects of the Sui modules other than the escrow
\* the Resolver object, and the coins its functions hand on
resolverVars == <<resolver_owner, owner_coins>>

moduleVars == <<lopVars, resolverVars>>

vars == <<created, immutables, deposited_amount, safety_deposit, is_completed,
          clock_ms, t0, events, last, payout, coordVars, bidirVars, block_timestamp,
          verifierVars, moduleVars>>

\* everything the Sui escrow's transactions leave alone
ethVars == <<coordVars, bidirVars, block_timestamp, verifierVars>>

\* everything an Ethereum transaction leaves alone
suiVars == <<created, immutables, deposited_amount, safety_deposit, is_completed,
             clock_ms, t0, events, payout, moduleVars>>

escrowVars == <<created, immutables, deposited_amount, safety_deposit, is_completed>>

current_time == clock_ms \div MsPerSecond

Init ==
    /\ created = FALSE
    /\ immutables = NoImmutables
    /\ deposited_amount = 0
    /\ safety_deposit = 0
    /\ is_completed = FALSE
    /\ clock_ms = 0
    /\ t0 = 0
    /\ events = <<>>
    /\ last = NoCall
    /\ payout = NoPayout
    /\ liveSecrets = [id \in EscrowIds |-> 0]
    /\ secretCoordinated = [x \in LiveSecretWords |-> FALSE]
    /\ secretTimestamp = [x \in LiveSecretWords |-> 0]
    /\ secretCoordinator = [x \in LiveSecretWords |-> NoAddress]
    /\ coordinationStatus = [id \in EscrowIds |-> ""]
    /\ suiEscrowToOrder = [id \in EscrowIds |-> 0]
    /\ orderToSuiEscrow = [o \in OrderHashes |-> 0]
    /\ crossChainMappingExists = [o \in OrderHashes |-> FALSE]
    /\ revealedSecrets = [x \in LiveSecretWords |-> FALSE]
    /\ block_timestamp = DeployTime
    /\ ethereumOrderToSuiEscrow = [o \in LocalOrders |-> 0]
    /\ suiEscrowToEthereumOrder = [id \in EscrowIds |-> 0]
    /\ ethereumOrderExists = [o \in LocalOrders |-> FALSE]
    /\ ethereumEscrows = [o \in LocalOrders |-> NoEscrowData]
    /\ ethereumEscrowActive = [o \in LocalOrders |-> FALSE]
    /\ ethereumRevealedSecrets = [o \in LocalOrders |-> 0]
    /\ ethereumSecretTimestamp = [o \in LocalOrders |-> 0]
    /\ secretUsedOnSui = [x \in LiveSecretWords |-> FALSE]
    /\ bidirectionalStatus = [o \in LocalOrders |-> ""]
    /\ ethereumInitiator = [o \in LocalOrders |-> NoAddress]
    /\ verifiedCheckpoints = [h \in Hashes |-> FALSE]
    /\ verifiedTransactions = [h \in Hashes |-> FALSE]
    /\ merkle_tree = NoMerkleTree
    /\ partial_order = NoOrder
    /\ resolver_owner = Publisher
    /\ owner_coins = [principal |-> 0, safety |-> 0]

Call(op, sender, secret, abort) ==
    [op |-> op, sender |-> sender, secret |-> secret, abort |-> abort]

(* ------------------------------------------------------------ operations *)

\* the ledger clock advances
Tick ==
    /\ current_time < MaxTime
    /\ clock_ms' = clock_ms + MsPerSecond
    /\ UNCHANGED <<escrowVars, t0, events, last, payout, ethVars, moduleVars>>

\* escrow::create (anyone may call it; the call is recorded under the maker)
Create ==
    /\ ~created
    /\ \E hl \in HashLocks, maker \in Makers, taker \in Takers,
          amount \in Amounts, sd \in Amounts, tl \in TimeLockChoices :
          /\ immutables' = create_src_immutables(hl, maker, taker, amount, sd, tl)
          /\ last' = Call("create", maker, <<>>, Ok)
    /\ created' = TRUE
    /\ deposited_amount' = 0
    /\ safety_deposit' = 0
    /\ is_completed' = FALSE
    /\ t0' = current_time
    /\ UNCHANGED <<clock_ms, events, payout, ethVars, moduleVars>>

\* the asserts of escrow::deposit, in order
DepositAbort(sender) ==
    IF is_completed THEN Abort(E_ESCROW_COMPLETED)
    ELSE IF sender # immutables.taker THEN Abort(E_UNAUTHORIZED)
    ELSE Ok

\* escrow::deposit
Deposit ==
    /\ created
    /\ \E sender \in Addr :
          LET a == DepositAbort(sender) IN
          /\ last' = Call("deposit", sender, <<>>, a)
          /\ IF a = Ok
             THEN \E coin \in 0..MaxBalance, safety_coin \in 0..MaxBalance :
                  /\ deposited_amount + coin <= MaxBalance
                  /\ safety_deposit + safety_coin <= MaxBalance
                  /\ deposited_amount' = deposited_amount + coin
                  /\ safety_deposit' = safety_deposit + safety_coin
             ELSE UNCHANGED <<deposited_amount, safety_deposit>>
    /\ UNCHANGED <<created, immutables, is_completed, clock_ms, t0, events, payout, ethVars, moduleVars>>

\* withdraw without its hashlock assert
WithdrawAbort_NoHashCheck(sender, secret) ==
    IF is_completed THEN Abort(E_ESCROW_COMPLETED)
    ELSE IF /\ sender = immutables.taker
            /\ ~(current_time >= immutables.time_locks.src_withdrawal)
         THEN Abort(E_TIME_LOCK_NOT_EXPIRED)
    ELSE Ok

\* withdraw checking the timelock before the hashlock
WithdrawAbort_TimeLockFirst(sender, secret) ==
    IF is_completed THEN Abort(E_ESCROW_COMPLETED)
    ELSE IF /\ sender = immutables.taker
            /\ ~(current_time >= immutables.time_locks.src_withdrawal)
         THEN Abort(E_TIME_LOCK_NOT_EXPIRED)
    ELSE IF Keccak256(secret) # immutables.hash_lock THEN Abort(E_INVALID_SECRET)
    ELSE Ok

\* the asserts of escrow::withdraw, in order
WithdrawAbort(sender, secret) ==
    IF is_completed THEN Abort(E_ESCROW_COMPLETED)
    ELSE IF Keccak256(secret) # immutables.hash_lock THEN Abort(E_INVALID_SECRET)
    ELSE IF /\ sender = immutables.taker
            /\ ~(current_time >= immutables.time_locks.src_withdrawal)
         THEN Abort(E_TIME_LOCK_NOT_EXPIRED)
    ELSE Ok

\* escrow::withdraw
Withdraw ==
    /\ created
    /\ \E sender \in Addr, secret \in SecretInputs :
          LET a == WithdrawAbort(sender, secret) IN
          /\ last' = Call("withdraw", sender, secret, a)
          /\ IF a = Ok
             THEN /\ is_completed' = TRUE
                  /\ events' = Append(events,
                        [type |-> "Withdrawn", secret |-> secret,
                         to |-> immutables.maker, amount |-> deposited_amount])
                  /\ payout' = [op |-> "withdraw", holder |-> sender,
                                principal |-> deposited_amount, safety |-> safety_deposit]
                  /\ deposited_amount' = 0
                  /\ safety_deposit' = 0
             ELSE UNCHANGED <<is_completed, events, payout, deposited_amount, safety_deposit>>
    /\ UNCHANGED <<created, immutables, clock_ms, t0, ethVars, moduleVars>>

\* cancel without its is_completed assert
CancelAbort_NoCompletedCheck(sender) ==
    IF sender = immutables.taker
    THEN IF current_time >= immutables.time_locks.src_cancellation
         THEN Ok ELSE Abort(E_TIME_LOCK_NOT_EXPIRED)
    ELSE IF current_time >= immutables.time_locks.src_public_cancellation
         THEN Ok ELSE Abort(E_TIME_LOCK_NOT_EXPIRED)

\* the asserts of escrow::cancel, in order
CancelAbort(sender) ==
    IF is_completed THEN Abort(E_ESCROW_COMPLETED)
    ELSE IF sender = immutables.taker
         THEN IF current_time >= immutables.time_locks.src_cancellation
              THEN Ok ELSE Abort(E_TIME_LOCK_NOT_EXPIRED)
         ELSE IF current_time >= immutables.time_locks.src_public_cancellation
              THEN Ok ELSE Abort(E_TIME_LOCK_NOT_EXPIRED)

\* escrow::cancel
Cancel ==
    /\ created
    /\ \E sender \in Addr :
          LET a == CancelAbort(sender) IN
          /\ last' = Call("cancel", sender, <<>>, a)
          /\ IF a = Ok
             THEN /\ is_completed' = TRUE
                  /\ events' = Append(events,
                        [type |-> "Cancelled", to |-> immutables.maker,
                         amount |-> deposited_amount])
                  /\ payout' = [op |-> "cancel", holder |-> sender,
                                principal |-> deposited_amount, safety |-> safety_deposit]
                  /\ deposited_amount' = 0
                  /\ safety_deposit' = 0
             ELSE UNCHANGED <<is_completed, events, payout, deposited_amount, safety_deposit>>
    /\ UNCHANGED <<created, immutables, clock_ms, t0, ethVars, moduleVars>>

Next == Tick \/ Create \/ Deposit \/ Withdraw \/ Cancel

Spec == Init /\ [][Next]_vars

\* a cancel that returns
CancelReturns == Cancel /\ last'.abort = Ok

\* the escrow on a ledger whose clock keeps advancing and where a cancel that
\* can return is sent sooner or later
LiveSpec == Init /\ [][Next]_vars /\ WF_vars(Tick) /\ WF_vars(CancelReturns)

(* ------------------------------------------------ coordinator operations *)

\* a call to the coordinator: the arguments of a call that returned, the
\* reason alone of a call that reverted
EthCall(op, sender, id, secret, order, revert) ==
    IF revert = Ok
    THEN [op |-> op, sender |-> sender, id |-> id, secret |-> secret,
          order |-> order, abort |-> Ok]
    ELSE [op |-> op, sender |-> NoAddress, id |-> 0, secret |-> 0,
          order |-> 0, abort |-> revert]

\* the storage of the coordinator as one value
stores ==
    [liveSecrets |-> liveSecrets, secretCoordinated |-> secretCoordinated,
     secretTimestamp |-> secretTimestamp, secretCoordinator |-> secretCoordinator,
     coordinationStatus |-> coordinationStatus, suiEscrowToOrder |-> suiEscrowToOrder,
     orderToSuiEscrow |-> orderToSuiEscrow,
     crossChainMappingExists |-> crossChainMappingExists,
     revealedSecrets |-> revealedSecrets]

\* the storage after the transaction is st
Commit(st) ==
    /\ liveSecrets' = st.liveSecrets
    /\ secretCoordinated' = st.secretCoordinated
    /\ secretTimestamp' = st.secretTimestamp
    /\ secretCoordinator' = st.secretCoordinator
    /\ coordinationStatus' = st.coordinationStatus
    /\ suiEscrowToOrder' = st.suiEscrowToOrder
    /\ orderToSuiEscrow' = st.orderToSuiEscrow
    /\ crossChainMappingExists' = st.crossChainMappingExists
    /\ revealedSecrets' = st.revealedSecrets

\* a new block is mined
Mine ==
    /\ block_timestamp < DeployTime + MaxBlocks * BlockInterval
    /\ block_timestamp' = block_timestamp + BlockInterval
    /\ UNCHANGED <<suiVars, verifierVars, last, coordVars, bidirVars>>

\* the writes both coordination paths make to the secret stores
StoreSecret(st, suiEscrowId, revealedSecret, sender) ==
    [st EXCEPT !.liveSecrets[suiEscrowId] = revealedSecret,
               !.secretCoordinated[revealedSecret] = TRUE,
               !.secretTimestamp[revealedSecret] = block_timestamp,
               !.secretCoordinator[revealedSecret] = sender,
               !.coordinationStatus[suiEscrowId] = "SECRET_COORDINATED"]

\* the writes of registerCrossChainMapping, of coordinateSecretFromSui when
\* the escrow id has no order yet, and of deploySrcWithSuiProof
StoreMapping(st, suiEscrowId, ethereumOrderHash) ==
    [st EXCEPT !.suiEscrowToOrder[suiEscrowId] = ethereumOrderHash,
               !.orderToSuiEscrow[ethereumOrderHash] = suiEscrowId,
               !.crossChainMappingExists[ethereumOrderHash] = TRUE]

\* coordinateSecretFromSui without its secretCoordinated require
CoordinateRevert_NoCoordinatedCheck(suiEscrowId, revealedSecret) ==
    IF revealedSecret = 0 THEN Revert("Invalid secret")
    ELSE IF suiEscrowId = 0 THEN Revert("Invalid escrow ID")
    ELSE Ok

\* the requires of coordinateSecretFromSui, in order
CoordinateRevert(suiEscrowId, revealedSecret) ==
    IF revealedSecret = 0 THEN Revert("Invalid secret")
    ELSE IF suiEscrowId = 0 THEN Revert("Invalid escrow ID")
    ELSE IF secretCoordinated[revealedSecret] THEN Revert("Secret already coordinated")
    ELSE Ok

\* the storage writes of coordinateSecretFromSui
coordinateSecretFromSui(st, suiEscrowId, revealedSecret, ethereumOrderHash, sender) ==
    LET st1 == StoreSecret(st, suiEscrowId, revealedSecret, sender) IN
    IF st1.suiEscrowToOrder[suiEscrowId] = 0
    THEN StoreMapping(st1, suiEscrowId, ethereumOrderHash)
    ELSE st1

\* SuiResolver.coordinateSecretFromSui (anyone may call it), with a secret of
\* secretWords
CoordinateSecret(secretWords) ==
    /\ \E sender \in Relayers, id \in EscrowIds, secret \in secretWords,
          order \in NonZero(OrderHashes) :
          LET r == CoordinateRevert(id, secret) IN
          /\ last' = EthCall("coordinateSecretFromSui", sender, id, secret, order, r)
          /\ IF r = Ok
             THEN Commit(coordinateSecretFromSui(stores, id, secret, order, sender))
             ELSE UNCHANGED coordVars
    /\ UNCHANGED <<suiVars, verifierVars, bidirVars, block_timestamp>>

CoordinateSecretFromSui == CoordinateSecret(SecretWords)

\* the requires of registerCrossChainMapping, in order
RegisterRevert(suiEscrowId, ethereumOrderHash) ==
    IF suiEscrowId = 0 THEN Revert("Invalid Sui escrow ID")
    ELSE IF ethereumOrderHash = 0 THEN Revert("Invalid Ethereum order hash")
    ELSE Ok

\* SuiResolver.registerCrossChainMapping (anyone may call it)
RegisterCrossChainMapping ==
    /\ \E sender \in Relayers, id \in EscrowIds, order \in OrderHashes :
          LET r == RegisterRevert(id, order) IN
          /\ last' = EthCall("registerCrossChainMapping", sender, id, 0, order, r)
          /\ IF r = Ok
             THEN Commit(StoreMapping(stores, id, order))
             ELSE UNCHANGED coordVars
    /\ UNCHANGED <<suiVars, verifierVars, bidirVars, block_timestamp>>

\* withdrawWithCoordinatedSecret without its revealedSecrets require
WithdrawCoordinatedRevert_NoUsedCheck(suiEscrowId, escrowReturns) ==
    LET secret == liveSecrets[suiEscrowId] IN
    IF secret = 0 THEN Revert("No secret available")
    ELSE IF ~secretCoordinated[secret] THEN Revert("Secret not coordinated")
    ELSE IF ~escrowReturns THEN Revert("escrow.withdraw reverted")
    ELSE Ok

\* the requires of withdrawWithCoordinatedSecret, in order, and the outcome
\* of the external escrow.withdraw call (the escrow is whatever contract the
\* caller names, so the call may return or revert)
WithdrawCoordinatedRevert(suiEscrowId, escrowReturns) ==
    LET secret == liveSecrets[suiEscrowId] IN
    IF secret = 0 THEN Revert("No secret available")
    ELSE IF ~secretCoordinated[secret] THEN Revert("Secret not coordinated")
    ELSE IF revealedSecrets[secret] THEN Revert("Secret already used")
    ELSE IF ~escrowReturns THEN Revert("escrow.withdraw reverted")
    ELSE Ok

\* SuiResolver.withdrawWithCoordinatedSecret (anyone may call it); the call
\* is recorded with the secret it read from liveSecrets
WithdrawWithCoordinatedSecret ==
    /\ \E sender \in Relayers, id \in EscrowIds, escrowReturns \in BOOLEAN :
          LET secret == liveSecrets[id]
              r == WithdrawCoordinatedRevert(id, escrowReturns) IN
          /\ last' = EthCall("withdrawWithCoordinatedSecret", sender, id, secret, 0, r)
          /\ IF r = Ok
             THEN Commit([stores EXCEPT !.revealedSecrets[secret] = TRUE,
                                        !.coordinationStatus[id] = "SECRET_USED_ON_ETHEREUM"])
             ELSE UNCHANGED coordVars
    /\ UNCHANGED <<suiVars, verifierVars, bidirVars, block_timestamp>>

\* the writes of _coordinateSecretInternal
_coordinateSecretInternal(st, suiEscrowId, revealedSecret, ethereumOrderHash, sender) ==
    LET st1 == StoreSecret(st, suiEscrowId, revealedSecret, sender) IN
    [st1 EXCEPT !.suiEscrowToOrder[suiEscrowId] = ethereumOrderHash,
                !.orderToSuiEscrow[ethereumOrderHash] = suiEscrowId]

\* the loop of batchCoordinateSecrets from index i on
RECURSIVE batchLoop(_, _, _, _, _, _)
batchLoop(st, suiEscrowIds, secrets, ethereumOrderHashes, i, sender) ==
    IF i > Len(suiEscrowIds) THEN st
    ELSE batchLoop(
            IF ~st.secretCoordinated[secrets[i]]
            THEN _coordinateSecretInternal(st, suiEscrowIds[i], secrets[i],
                                           ethereumOrderHashes[i], sender)
            ELSE st,
            suiEscrowIds, secrets, ethereumOrderHashes, i + 1, sender)

\* arrays of at most MaxBatch elements of S
Arrays(S) == UNION {[1..n -> S] : n \in 0..MaxBatch}

\* the requires of batchCoordinateSecrets
BatchRevert(suiEscrowIds, secrets, ethereumOrderHashes) ==
    IF Len(suiEscrowIds) # Len(secrets) THEN Revert("Array length mismatch")
    ELSE IF Len(secrets) # Len(ethereumOrderHashes) THEN Revert("Array length mismatch")
    ELSE Ok

\* SuiResolver.batchCoordinateSecrets (anyone may call it), with secrets of
\* secretWords
BatchCoordinate(secretWords) ==
    /\ \E sender \in Relayers, ids \in Arrays(NonZero(EscrowIds)),
          secrets \in Arrays(NonZero(secretWords)),
          orders \in Arrays(NonZero(OrderHashes)) :
          LET r == BatchRevert(ids, secrets, orders) IN
          /\ last' = EthCall("batchCoordinateSecrets", sender, ids, secrets, orders, r)
          /\ IF r = Ok
             THEN Commit(batchLoop(stores, ids, secrets, orders, 1, sender))
             ELSE UNCHANGED coordVars
    /\ UNCHANGED <<suiVars, verifierVars, bidirVars, block_timestamp>>

BatchCoordinateSecrets == BatchCoordinate(SecretWords)

\* the checks of deploySrcWithSuiProof that bear on the coordinator's
\* storage: onlyOwner, the verifier's verdict on the proof, the escrow id
\* check of _validateSuiEscrowParams, and the outcome of the remaining
\* checks and external calls (factory, limit-order protocol)
DeploySrcRevert(sender, escrowId, proofVerifies, restReturns) ==
    IF sender # Owner THEN Revert("OwnableUnauthorizedAccount")
    ELSE IF ~proofVerifies THEN Revert("SuiProofVerificationFailed")
    ELSE IF escrowId = 0 THEN Revert("Invalid escrow ID")
    ELSE IF ~restReturns THEN Revert("deploySrcWithSuiProof reverted")
    ELSE Ok

\* SuiResolver.deploySrcWithSuiProof; orderHash is the digest _hashOrder
\* computes of the order, never bytes32(0)
DeploySrcWithSuiProof ==
    /\ \E sender \in Senders, id \in EscrowIds, orderHash \in NonZero(OrderHashes),
          proofVerifies \in BOOLEAN, restReturns \in BOOLEAN :
          LET r == DeploySrcRevert(sender, id, proofVerifies, restReturns) IN
          /\ last' = EthCall("deploySrcWithSuiProof", sender, id, 0, orderHash, r)
          /\ IF r = Ok
             THEN Commit(StoreMapping(stores, id, orderHash))
             ELSE UNCHANGED coordVars
    /\ UNCHANGED <<suiVars, verifierVars, bidirVars, block_timestamp>>

\* the checks of withdrawWithSuiSecret: the verifier's verdict on the proof
\* (verifySuiWithdrawal then returns the secret the caller wrote into the
\* withdrawal), the revealedSecrets check and the external escrow.withdraw
WithdrawSuiSecretRevert(secret, proofVerifies, escrowReturns) ==
    IF ~proofVerifies THEN Revert("SuiTransactionNotVerified")
    ELSE IF revealedSecrets[secret] THEN Revert("SecretAlreadyRevealed")
    ELSE IF ~escrowReturns THEN Revert("escrow.withdraw reverted")
    ELSE Ok

\* SuiResolver.withdrawWithSuiSecret (anyone may call it)
WithdrawWithSuiSecret ==
    /\ \E sender \in Relayers, secret \in NonZero(SecretWords),
          proofVerifies \in BOOLEAN, escrowReturns \in BOOLEAN :
          LET r == WithdrawSuiSecretRevert(secret, proofVerifies, escrowReturns) IN
          /\ last' = EthCall("withdrawWithSuiSecret", sender, 0, secret, 0, r)
          /\ IF r = Ok
             THEN Commit([stores EXCEPT !.revealedSecrets[secret] = TRUE])
             ELSE UNCHANGED coordVars
    /\ UNCHANGED <<suiVars, verifierVars, bidirVars, block_timestamp>>

\* onlyOwner and the require of emergencyResetCoordination
ResetRevert(sender, suiEscrowId) ==
    IF sender # Owner THEN Revert("OwnableUnauthorizedAccount")
    ELSE IF ~(block_timestamp > secretTimestamp[liveSecrets[suiEscrowId]] + COORDINATION_TIMEOUT)
         THEN Revert("Coordination too recent")
    ELSE Ok

\* emergencyResetCoordination writing the status alone
emergencyResetCoordination_StatusOnly(st, suiEscrowId) ==
    [st EXCEPT !.coordinationStatus[suiEscrowId] = "RESET"]

\* the deletes of emergencyResetCoordination
emergencyResetCoordination(st, suiEscrowId) ==
    LET secret == st.liveSecrets[suiEscrowId] IN
    [st EXCEPT !.liveSecrets[suiEscrowId] = 0,
               !.secretCoordinated[secret] = FALSE,
               !.secretTimestamp[secret] = 0,
               !.secretCoordinator[secret] = NoAddress,
               !.coordinationStatus[suiEscrowId] = "RESET"]

\* SuiResolver.emergencyResetCoordination; the call is recorded with the
\* secret it read from liveSecrets
EmergencyResetCoordination ==
    /\ \E sender \in Senders, id \in EscrowIds :
          LET r == ResetRevert(sender, id) IN
          /\ last' = EthCall("emergencyResetCoordination", sender, id, liveSecrets[id], 0, r)
          /\ IF r = Ok
             THEN Commit(emergencyResetCoordination(stores, id))
             ELSE UNCHANGED coordVars
    /\ UNCHANGED <<suiVars, verifierVars, bidirVars, block_timestamp>>

\* the deletes of cancelWithSuiCoordination
cancelWithSuiCoordination(st, suiEscrowId) ==
    LET orderHash == st.suiEscrowToOrder[suiEscrowId] IN
    [st EXCEPT !.suiEscrowToOrder[suiEscrowId] = 0,
               !.orderToSuiEscrow[orderHash] = 0,
               !.coordinationStatus[suiEscrowId] = "CANCELLED"]

\* SuiResolver.cancelWithSuiCoordination (anyone may call it, naming any
\* escrow contract, whose cancel may return or revert)
CancelWithSuiCoordination ==
    /\ \E sender \in Relayers, id \in EscrowIds, escrowReturns \in BOOLEAN :
          LET r == IF escrowReturns THEN Ok ELSE Revert("escrow.cancel reverted") IN
          /\ last' = EthCall("cancelWithSuiCoordination", sender, id, 0, 0, r)
          /\ IF r = Ok
             THEN Commit(cancelWithSuiCoordination(stores, id))
             ELSE UNCHANGED coordVars
    /\ UNCHANGED <<suiVars, verifierVars, bidirVars, block_timestamp>>

\* deployDstWithSuiCoordination and emergencyCancelWithSuiProof write none
\* of the coordinator's storage.
CoordNext ==
    \/ Mine
    \/ CoordinateSecretFromSui
    \/ RegisterCrossChainMapping
    \/ WithdrawWithCoordinatedSecret
    \/ BatchCoordinateSecrets
    \/ DeploySrcWithSuiProof
    \/ WithdrawWithSuiSecret
    \/ EmergencyResetCoordination
    \/ CancelWithSuiCoordination

CoordSpec == Init /\ [][CoordNext]_vars

CoordinateAnySecret == CoordinateSecret(LiveSecretWords)
BatchAnySecret == BatchCoordinate(LiveSecretWords)

\* the calls that write, read and delete the live secret of an escrow id, for
\* every secret
RelayNext ==
    \/ Mine
    \/ CoordinateAnySecret
    \/ BatchAnySecret
    \/ WithdrawWithCoordinatedSecret
    \/ EmergencyResetCoordination

RelaySpec == Init /\ [][RelayNext]_vars

(* ---------------------------------- bidirectional coordinator operations *)

\* the storage SuiResolverBidirectional adds, as one value
bidir ==
    [ethereumOrderToSuiEscrow |-> ethereumOrderToSuiEscrow,
     suiEscrowToEthereumOrder |-> suiEscrowToEthereumOrder,
     ethereumOrderExists |-> ethereumOrderExists,
     ethereumEscrows |-> ethereumEscrows,
     ethereumEscrowActive |-> ethereumEscrowActive,
     ethereumRevealedSecrets |-> ethereumRevealedSecrets,
     ethereumSecretTimestamp |-> ethereumSecretTimestamp,
     secretUsedOnSui |-> secretUsedOnSui,
     bidirectionalStatus |-> bidirectionalStatus,
     ethereumInitiator |-> ethereumInitiator]

\* the added storage after the transaction is st
CommitBidir(st) ==
    /\ ethereumOrderToSuiEscrow' = st.ethereumOrderToSuiEscrow
    /\ suiEscrowToEthereumOrder' = st.suiEscrowToEthereumOrder
    /\ ethereumOrderExists' = st.ethereumOrderExists
    /\ ethereumEscrows' = st.ethereumEscrows
    /\ ethereumEscrowActive' = st.ethereumEscrowActive
    /\ ethereumRevealedSecrets' = st.ethereumRevealedSecrets
    /\ ethereumSecretTimestamp' = st.ethereumSecretTimestamp
    /\ secretUsedOnSui' = st.secretUsedOnSui
    /\ bidirectionalStatus' = st.bidirectionalStatus
    /\ ethereumInitiator' = st.ethereumInitiator

\* the requires of initiateEthereumToSuiSwap, in order
InitiateRevert(orderHash, secretHash, safetyDeposit, value) ==
    IF orderHash = 0 THEN Revert("Invalid order hash")
    ELSE IF secretHash = 0 THEN Revert("Invalid secret hash")
    ELSE IF ethereumOrderExists[orderHash] THEN Revert("Order already exists")
    ELSE IF ~(value >= safetyDeposit) THEN Revert("Insufficient safety deposit")
    ELSE Ok

\* SuiResolverBidirectional.initiateEthereumToSuiSwap (anyone may call it);
\* value is msg.value
initiateEthereumToSuiSwap(orderHashes) ==
    /\ \E sender \in Senders, orderHash \in orderHashes, secretHash \in SecretWords,
          maker \in Makers, taker \in Takers \ Makers, amount \in Amounts,
          safetyDeposit \in Amounts, value \in 0..1 :
          LET r == InitiateRevert(orderHash, secretHash, safetyDeposit, value) IN
          /\ last' = EthCall("initiateEthereumToSuiSwap", sender, 0, secretHash, orderHash, r)
          /\ IF r = Ok
             THEN CommitBidir(
                    [bidir EXCEPT
                       !.ethereumEscrows[orderHash] =
                           [orderHash |-> orderHash, secretHash |-> secretHash,
                            maker |-> maker, taker |-> taker, token |-> "token",
                            amount |-> amount, safetyDeposit |-> safetyDeposit,
                            createdAt |-> block_timestamp, isActive |-> TRUE],
                       !.ethereumOrderExists[orderHash] = TRUE,
                       !.ethereumEscrowActive[orderHash] = TRUE,
                       !.ethereumInitiator[orderHash] = sender,
                       !.bidirectionalStatus[orderHash] = "ETHEREUM_ESCROW_INITIATED"])
             ELSE UNCHANGED bidirVars
    /\ UNCHANGED <<suiVars, verifierVars, coordVars, block_timestamp>>

InitiateEthereumToSuiSwap == initiateEthereumToSuiSwap(SwapOrders)

\* the requires of linkEthereumOrderToSuiEscrow, in order
LinkRevert(ethereumOrderHash, suiEscrowId) ==
    IF ~ethereumOrderExists[ethereumOrderHash] THEN Revert("Ethereum order not found")
    ELSE IF suiEscrowId = 0 THEN Revert("Invalid Sui escrow ID")
    ELSE IF ethereumOrderToSuiEscrow[ethereumOrderHash] # 0 THEN Revert("Mapping already exists")
    ELSE Ok

\* the writes of a link, in linkEthereumOrderToSuiEscrow and in the LINK
\* operation of batchProcessBidirectional
StoreLink(st, ethereumOrderHash, suiEscrowId) ==
    [st EXCEPT !.ethereumOrderToSuiEscrow[ethereumOrderHash] = suiEscrowId,
               !.suiEscrowToEthereumOrder[suiEscrowId] = ethereumOrderHash]

\* SuiResolverBidirectional.linkEthereumOrderToSuiEscrow (anyone may call it)
linkEthereumOrderToSuiEscrow(orderHashes) ==
    /\ \E sender \in Relayers, orderHash \in orderHashes, id \in EscrowIds :
          LET r == LinkRevert(orderHash, id) IN
          /\ last' = EthCall("linkEthereumOrderToSuiEscrow", sender, id, 0, orderHash, r)
          /\ IF r = Ok
             THEN CommitBidir(
                    [StoreLink(bidir, orderHash, id) EXCEPT
                       !.bidirectionalStatus[orderHash] = "ETHEREUM_SUI_LINKED"])
             ELSE UNCHANGED bidirVars
    /\ UNCHANGED <<suiVars, verifierVars, coordVars, block_timestamp>>

LinkEthereumOrderToSuiEscrow == linkEthereumOrderToSuiEscrow(SwapOrders)

\* the requires of revealEthereumSecret, in order
RevealRevert(orderHash, secret) ==
    IF ~ethereumOrderExists[orderHash] THEN Revert("Order not found")
    ELSE IF ~ethereumEscrowActive[orderHash] THEN Revert("Escrow not active")
    ELSE IF keccak256(secret) # ethereumEscrows[orderHash].secretHash
         THEN Revert("Invalid secret")
    ELSE IF ethereumRevealedSecrets[orderHash] # 0 THEN Revert("Secret already revealed")
    ELSE Ok

\* SuiResolverBidirectional.revealEthereumSecret (anyone may call it); what
\* it stores under the order is secretBytes, the digest of the string
RevealEthereumSecret ==
    /\ \E sender \in Relayers, orderHash \in SwapOrders, secret \in SecretStrings :
          LET r == RevealRevert(orderHash, secret) IN
          /\ last' = EthCall("revealEthereumSecret", sender, 0, secret, orderHash, r)
          /\ IF r = Ok
             THEN CommitBidir(
                    [bidir EXCEPT
                       !.ethereumRevealedSecrets[orderHash] = keccak256(secret),
                       !.ethereumSecretTimestamp[orderHash] = block_timestamp,
                       !.bidirectionalStatus[orderHash] = "ETHEREUM_SECRET_REVEALED"])
             ELSE UNCHANGED bidirVars
    /\ UNCHANGED <<suiVars, verifierVars, coordVars, block_timestamp>>

\* the requires of completeSuiWithdrawalFromEthereumSecret, in order
CompleteRevert(orderHash, suiEscrowId) ==
    IF ~ethereumOrderExists[orderHash] THEN Revert("Order not found")
    ELSE IF ethereumOrderToSuiEscrow[orderHash] # suiEscrowId THEN Revert("Invalid mapping")
    ELSE IF ethereumRevealedSecrets[orderHash] = 0 THEN Revert("Secret not revealed")
    ELSE IF secretUsedOnSui[ethereumRevealedSecrets[orderHash]]
         THEN Revert("Secret already used")
    ELSE Ok

\* the writes that mark an order's secret used, in
\* completeSuiWithdrawalFromEthereumSecret and in the COMPLETE operation of
\* batchProcessBidirectional
StoreUsed(st, orderHash) ==
    [st EXCEPT !.secretUsedOnSui[st.ethereumRevealedSecrets[orderHash]] = TRUE,
               !.ethereumEscrowActive[orderHash] = FALSE]

\* SuiResolverBidirectional.completeSuiWithdrawalFromEthereumSecret (anyone
\* may call it); the call is recorded with the secret it marked used
CompleteSuiWithdrawalFromEthereumSecret ==
    /\ \E sender \in Relayers, orderHash \in SwapOrders, id \in EscrowIds :
          LET r == CompleteRevert(orderHash, id) IN
          /\ last' = EthCall("completeSuiWithdrawalFromEthereumSecret", sender, id,
                             ethereumRevealedSecrets[orderHash], orderHash, r)
          /\ IF r = Ok
             THEN CommitBidir(
                    [StoreUsed(bidir, orderHash) EXCEPT
                       !.bidirectionalStatus[orderHash] = "BIDIRECTIONAL_COMPLETED"])
             ELSE UNCHANGED bidirVars
    /\ UNCHANGED <<suiVars, verifierVars, coordVars, block_timestamp>>

\* the requires of emergencyCancelEthereumOrder, in order
EmergencyCancelRevert(sender, orderHash) ==
    IF ~(ethereumInitiator[orderHash] = sender \/ sender = Owner)
    THEN Revert("Unauthorized")
    ELSE IF ~(block_timestamp > ethereumEscrows[orderHash].createdAt + COORDINATION_TIMEOUT)
         THEN Revert("Too early to cancel")
    ELSE Ok

\* SuiResolverBidirectional.emergencyCancelEthereumOrder
EmergencyCancelEthereumOrder ==
    /\ \E sender \in Senders, orderHash \in SwapOrders :
          LET r == EmergencyCancelRevert(sender, orderHash) IN
          /\ last' = EthCall("emergencyCancelEthereumOrder", sender, 0, 0, orderHash, r)
          /\ IF r = Ok
             THEN CommitBidir(
                    [bidir EXCEPT
                       !.ethereumEscrowActive[orderHash] = FALSE,
                       !.bidirectionalStatus[orderHash] = "EMERGENCY_CANCELLED"])
             ELSE UNCHANGED bidirVars
    /\ UNCHANGED <<suiVars, verifierVars, coordVars, block_timestamp>>

\* one element of the loop of batchProcessBidirectional
batchOperation(st, orderHash, suiEscrowId, operation) ==
    IF operation = "LINK"
    THEN IF st.ethereumOrderExists[orderHash] /\ st.ethereumOrderToSuiEscrow[orderHash] = 0
         THEN StoreLink(st, orderHash, suiEscrowId)
         ELSE st
    ELSE IF operation = "COMPLETE"
    THEN IF /\ st.ethereumRevealedSecrets[orderHash] # 0
            /\ ~st.secretUsedOnSui[st.ethereumRevealedSecrets[orderHash]]
         THEN StoreUsed(st, orderHash)
         ELSE st
    ELSE st

\* the loop of batchProcessBidirectional from index i on
RECURSIVE batchBidirLoop(_, _, _, _, _)
batchBidirLoop(st, orderHashes, suiEscrowIds, operations, i) ==
    IF i > Len(orderHashes) THEN st
    ELSE batchBidirLoop(
            batchOperation(st, orderHashes[i], suiEscrowIds[i], operations[i]),
            orderHashes, suiEscrowIds, operations, i + 1)

\* the operation strings handed to batchProcessBidirectional
Operations == {"LINK", "COMPLETE", "OTHER"}

\* SuiResolverBidirectional.batchProcessBidirectional (anyone may call it)
batchProcessBidirectional(orderHashes) ==
    /\ \E sender \in Relayers, orders \in Arrays(orderHashes),
          ids \in Arrays(NonZero(EscrowIds)), ops \in Arrays(Operations) :
          LET r == BatchRevert(orders, ids, ops) IN
          /\ last' = EthCall("batchProcessBidirectional", sender, ids, ops, orders, r)
          /\ IF r = Ok
             THEN CommitBidir(batchBidirLoop(bidir, orders, ids, ops, 1))
             ELSE UNCHANGED bidirVars
    /\ UNCHANGED <<suiVars, verifierVars, coordVars, block_timestamp>>

BatchProcessBidirectional == batchProcessBidirectional(SwapOrders)

\* both directions of the coordinator side by side
BidirNext ==
    \/ Mine
    \/ CoordinateSecretFromSui
    \/ InitiateEthereumToSuiSwap
    \/ LinkEthereumOrderToSuiEscrow
    \/ RevealEthereumSecret
    \/ CompleteSuiWithdrawalFromEthereumSecret
    \/ EmergencyCancelEthereumOrder
    \/ BatchProcessBidirectional

BidirSpec == Init /\ [][BidirNext]_vars

\* the calls that create orders of the reverse direction and link them to
\* Sui escrows, for every order hash
InitiateAnyOrder == initiateEthereumToSuiSwap(LocalOrders)
LinkAnyOrder == linkEthereumOrderToSuiEscrow(LocalOrders)
BatchAnyOrder == batchProcessBidirectional(LocalOrders)

LinkNext ==
    \/ InitiateAnyOrder
    \/ LinkAnyOrder
    \/ BatchAnyOrder

LinkSpec == Init /\ [][LinkNext]_vars

(* --------------------------------------------------- verifier operations *)

\* the signature lists and Merkle proofs a caller may present
SignatureLists == UNION {[1..n -> ValidatorSignatures] : n \in 0..MaxSigs}
MerkleProofs == UNION {[1..n -> Hashes] : n \in 0..MaxPath}

\* keccak256(abi.encodePacked(a, b)) of two bytes32 values: one-to-one on
\* pairs (Cantor's pairing, moved by one so that no value is its own digest
\* paired with itself)
keccak256Packed(a, b) == ((a + b) * (a + b + 1)) \div 2 + b + 1

\* SuiVerifier._verifyEd25519Signature: the placeholder reads the two lengths
\* and neither the message nor the bytes
_verifyEd25519Signature(message, signature, publicKey) ==
    signature.length = SIGNATURE_LENGTH /\ publicKey.length = PUBLIC_KEY_LENGTH

\* the loop of verifySuiCheckpoint from index i on: <<totalStake, signedStake>>
RECURSIVE stakeLoop(_, _, _, _, _)
stakeLoop(checkpointHash, signatures, i, totalStake, signedStake) ==
    IF i > Len(signatures) THEN <<totalStake, signedStake>>
    ELSE LET sig == signatures[i] IN
         stakeLoop(checkpointHash, signatures, i + 1, totalStake + sig.stake,
                   IF _verifyEd25519Signature(checkpointHash, sig.signature, sig.publicKey)
                   THEN signedStake + sig.stake ELSE signedStake)

\* the threshold test of verifySuiCheckpoint on a checkpoint that is not
\* memoized
CheckpointRevert(checkpointHash, signatures) ==
    LET stake == stakeLoop(checkpointHash, signatures, 1, 0, 0)
        totalStake == stake[1]
        signedStake == stake[2]
    IN IF signedStake * BASIS_POINTS < totalStake * STAKE_THRESHOLD
       THEN Revert("InsufficientStake")
       ELSE Ok

\* SuiVerifier.verifySuiCheckpoint (returns true whenever it returns)
VerifySuiCheckpoint ==
    /\ \E checkpointHash \in Hashes, signatures \in SignatureLists :
          IF verifiedCheckpoints[checkpointHash]
          THEN /\ last' = [op |-> "verifySuiCheckpoint", checkpointHash |-> checkpointHash,
                           signatures |-> signatures, abort |-> Ok]
               /\ UNCHANGED verifiedCheckpoints
          ELSE LET r == CheckpointRevert(checkpointHash, signatures) IN
               /\ last' = [op |-> "verifySuiCheckpoint", checkpointHash |-> checkpointHash,
                           signatures |-> signatures, abort |-> r]
               /\ IF r = Ok
                  THEN verifiedCheckpoints' = [verifiedCheckpoints EXCEPT ![checkpointHash] = TRUE]
                  ELSE UNCHANGED verifiedCheckpoints
    /\ UNCHANGED <<suiVars, coordVars, bidirVars, block_timestamp, verifiedTransactions>>

\* the loop of _verifyMerkleProof from element i on: the computed hash
RECURSIVE merkleLoop(_, _, _)
merkleLoop(computedHash, proof, i) ==
    IF i > Len(proof) THEN computedHash
    ELSE LET proofElement == proof[i] IN
         merkleLoop(IF computedHash <= proofElement
                    THEN keccak256Packed(computedHash, proofElement)
                    ELSE keccak256Packed(proofElement, computedHash),
                    proof, i + 1)

\* _verifyMerkleProof accepting every path
_verifyMerkleProof_Always(leaf, proof, root) == TRUE

\* SuiVerifier._verifyMerkleProof, on a proof of whole 32-byte elements
_verifyMerkleProof(leaf, proof, root) == merkleLoop(leaf, proof, 1) = root

\* the checks of verifySuiTransaction, in order
TransactionRevert(proof) ==
    IF ~verifiedCheckpoints[proof.checkpointHash] THEN Revert("CheckpointNotVerified")
    ELSE IF ~_verifyMerkleProof(proof.transactionHash, proof.merkleProof, proof.checkpointHash)
         THEN Revert("InvalidMerkleProof")
    ELSE Ok

\* SuiVerifier.verifySuiTransaction
VerifySuiTransaction ==
    /\ \E transactionHash \in Hashes, checkpointHash \in Hashes, merkleProof \in MerkleProofs :
          LET proof == [transactionHash |-> transactionHash,
                        checkpointHash |-> checkpointHash,
                        merkleProof |-> merkleProof]
              r == TransactionRevert(proof)
          IN /\ last' = [op |-> "verifySuiTransaction", proof |-> proof, abort |-> r]
             /\ IF r = Ok
                THEN verifiedTransactions' = [verifiedTransactions EXCEPT ![transactionHash] = TRUE]
                ELSE UNCHANGED verifiedTransactions
    /\ UNCHANGED <<suiVars, coordVars, bidirVars, block_timestamp, verifiedCheckpoints>>

VerifierNext == VerifySuiCheckpoint \/ VerifySuiTransaction

VerifierSpec == Init /\ [][VerifierNext]_vars

(* ------------------------------------------------ partial-fill operations *)

\* the hashing loop of create_merkle_tree: one leaf per secret
hash_leaves(secrets) == [i \in 1..Len(secrets) |-> Keccak256(secrets[i])]

\* one round of the outer loop of compute_merkle_root: the nodes are paired
\* left to right and a last node without partner is paired with itself
next_level(current_level) ==
    [k \in 1..((Len(current_level) + 1) \div 2) |->
        LET i == 2 * (k - 1)
            left == current_level[i + 1]
            right == IF i + 1 < Len(current_level) THEN current_level[i + 2] ELSE left
        IN Keccak256(left \o right)]

\* lop_order::compute_merkle_root, on a non-empty vector of leaves
RECURSIVE compute_merkle_root(_)
compute_merkle_root(current_level) ==
    IF Len(current_level) > 1
    THEN compute_merkle_root(next_level(current_level))
    ELSE current_level[1]

\* lop_order::calculate_depth
RECURSIVE calculate_depth(_)
calculate_depth(leaves) ==
    IF leaves > 1 THEN 1 + calculate_depth((leaves + 1) \div 2) ELSE 0

\* lop_order::create_merkle_tree past its assert
create_merkle_tree(secrets) ==
    [root |-> compute_merkle_root(hash_leaves(secrets)),
     leaves |-> hash_leaves(secrets),
     depth |-> calculate_depth(Len(secrets))]

\* the loop of verify_merkle_proof from proof element i (counted from 0) on
RECURSIVE proofLoop(_, _, _, _)
proofLoop(computed_hash, proof, i, current_index) ==
    IF ~(i < Len(proof)) THEN computed_hash
    ELSE LET proof_element == proof[i + 1] IN
         proofLoop(IF current_index % 2 = 0
                   THEN Keccak256(computed_hash \o proof_element)
                   ELSE Keccak256(proof_element \o computed_hash),
                   proof, i + 1, current_index \div 2)

\* verify_merkle_proof reading the index as even at every level
verify_merkle_proof_LeftOnly(leaf, proof, root, index) ==
    proofLoop(leaf, proof, 0, 0) = root

\* lop_order::verify_merkle_proof
verify_merkle_proof(leaf, proof, root, index) ==
    proofLoop(leaf, proof, 0, index) = root

\* the levels of the tree over the leaves, the leaves first and the root last
RECURSIVE tree_levels(_)
tree_levels(current_level) ==
    IF Len(current_level) > 1
    THEN <<current_level>> \o tree_levels(next_level(current_level))
    ELSE <<current_level>>

\* the proof a holder of the secrets presents for leaf `index` (counted from
\* 0): at each level below the root the node next to the running node, or the
\* running node itself where it has no partner
sibling_path(leaves, index) ==
    LET levels == tree_levels(leaves)
        position(l) == index \div (2 ^ (l - 1))
    IN [l \in 1..(Len(levels) - 1) |->
          LET level == levels[l]
              at == position(l)
              beside == IF at % 2 = 0 THEN at + 1 ELSE at - 1
          IN IF beside < Len(level) THEN level[beside + 1] ELSE level[at + 1]]

\* byte vectors a caller may put in the place of a leaf or of a proof element:
\* the digests of the secrets and of one more byte vector
OtherDigests == {Keccak256(s) : s \in Secrets \cup {<<3>>}}

\* the proofs presented against a tree: the sibling path of each leaf, and
\* each such path with one element replaced
ProofInputs(tree) ==
    LET paths == {sibling_path(tree.leaves, i) : i \in 0..(Len(tree.leaves) - 1)}
    IN paths \cup UNION {{[p EXCEPT ![k] = d] : k \in DOMAIN p, d \in OtherDigests} : p \in paths}

\* a transaction calling lop_order::create_merkle_tree
CreateMerkleTree ==
    /\ \E secrets \in SecretLists :
          IF ~(Len(secrets) > 0)
          THEN /\ last' = [op |-> "create_merkle_tree", secrets |-> secrets,
                           abort |-> Abort(E_EMPTY_SECRETS_LIST)]
               /\ UNCHANGED merkle_tree
          ELSE /\ last' = [op |-> "create_merkle_tree", secrets |-> secrets, abort |-> Ok]
               /\ merkle_tree' = create_merkle_tree(secrets)
    /\ UNCHANGED <<escrowVars, clock_ms, t0, events, payout, ethVars, resolverVars, partial_order>>

\* a transaction calling lop_order::verify_merkle_proof against the root of
\* the tree
VerifyMerkleProof ==
    /\ merkle_tree # NoMerkleTree
    /\ \E leaf \in OtherDigests, proof \in ProofInputs(merkle_tree),
          index \in 0..(MaxLeaves - 1) :
          last' = [op |-> "verify_merkle_proof", leaf |-> leaf, proof |-> proof,
                   index |-> index, abort |-> Ok,
                   result |-> verify_merkle_proof(leaf, proof, merkle_tree.root, index)]
    /\ UNCHANGED <<escrowVars, clock_ms, t0, events, payout, ethVars, resolverVars, merkle_tree, partial_order>>

LopNext == CreateMerkleTree \/ VerifyMerkleProof

LopSpec == Init /\ [][LopNext]_vars

\* the abort of the Move VM on a u64 operation whose result is not a u64; it
\* carries no code of the module
ArithmeticError == <<0, "move vm", "arithmetic error">>

\* a call to a partial-fill function: the arguments of a call that passed the
\* asserts and the amount it returned (none when the arithmetic aborted it),
\* the abort code alone of one that an assert stopped
FillCall(op, secret, merkle_proof, secret_index, fill_percentage, fill_amount, abort) ==
    IF abort = Ok \/ abort = ArithmeticError
    THEN [op |-> op, secret |-> secret, merkle_proof |-> merkle_proof,
          secret_index |-> secret_index, fill_percentage |-> fill_percentage,
          fill_amount |-> IF abort = Ok THEN fill_amount ELSE <<>>, abort |-> abort]
    ELSE [op |-> op, secret |-> <<>>, merkle_proof |-> <<>>, secret_index |-> 0,
          fill_percentage |-> 0, fill_amount |-> <<>>, abort |-> abort]

\* lop_order::create_partial_fill_order (the base order brings making_amount)
CreatePartialFillOrder ==
    /\ \E making_amount \in MakingAmounts, secrets \in SecretLists,
          allow_partial_fills \in BOOLEAN :
          IF ~(Len(secrets) > 0)
          THEN /\ last' = FillCall("create_partial_fill_order", <<>>, <<>>, 0, 0, <<>>,
                                   Abort(E_EMPTY_SECRETS_LIST))
               /\ UNCHANGED <<merkle_tree, partial_order>>
          ELSE /\ last' = FillCall("create_partial_fill_order", <<>>, <<>>, 0, 0, <<>>, Ok)
               /\ merkle_tree' = create_merkle_tree(secrets)
               /\ partial_order' = [making_amount |-> making_amount,
                                    merkle_root |-> create_merkle_tree(secrets).root,
                                    fill_percentage |-> 0,
                                    secret_index |-> 0,
                                    allow_partial_fills |-> allow_partial_fills,
                                    total_secrets |-> Len(secrets)]
    /\ UNCHANGED <<escrowVars, clock_ms, t0, events, payout, ethVars, resolverVars>>

\* the asserts of validate_partial_fill, in order, the assert
\* execute_partial_fill puts on its verdict, and the overflow check of
\* order.making_amount * fill_percentage
ExecuteAbort(secret, merkle_proof, secret_index, fill_percentage) ==
    IF ~partial_order.allow_partial_fills THEN Abort(E_PARTIAL_FILLS_NOT_ALLOWED)
    ELSE IF ~(fill_percentage <= FULL_FILL) THEN Abort(E_INVALID_FILL_PERCENTAGE)
    ELSE IF ~(secret_index < partial_order.total_secrets) THEN Abort(E_SECRET_INDEX_OUT_OF_BOUNDS)
    ELSE IF ~verify_merkle_proof(Keccak256(secret), merkle_proof, partial_order.merkle_root, secret_index)
         THEN Abort(E_INVALID_MERKLE_PROOF)
    ELSE IF greater(times(partial_order.making_amount, fill_percentage), MAX_U64)
         THEN ArithmeticError
    ELSE Ok

\* lop_order::execute_partial_fill on the order
ExecutePartialFill ==
    /\ partial_order # NoOrder
    /\ \E secret \in Secrets \cup {<<3>>}, merkle_proof \in ProofInputs(merkle_tree),
          secret_index \in 0..MaxLeaves, fill_percentage \in FillPercentages :
          LET a == ExecuteAbort(secret, merkle_proof, secret_index, fill_percentage)
              fill_amount == div_10000(times(partial_order.making_amount, fill_percentage))
          IN /\ last' = FillCall("execute_partial_fill", secret, merkle_proof,
                                 secret_index, fill_percentage, fill_amount, a)
             /\ IF a = Ok
                THEN /\ partial_order.fill_percentage + fill_percentage <= MaxFilled
                     /\ partial_order' =
                          [partial_order EXCEPT
                              !.fill_percentage = partial_order.fill_percentage + fill_percentage,
                              !.secret_index = secret_index]
                ELSE UNCHANGED partial_order
    /\ UNCHANGED <<escrowVars, clock_ms, t0, events, payout, ethVars, resolverVars, merkle_tree>>

FillNext == CreatePartialFillOrder \/ ExecutePartialFill

FillSpec == Init /\ [][FillNext]_vars

(* ----------------------------------------------------- resolver operations *)

\* the owner assert of the deploy functions, of deposit_to_escrow and of
\* transfer_ownership, left out
OwnerAbort_NoCheck(sender) == Ok

\* assert!(sender == resolver.owner, E_UNAUTHORIZED)
OwnerAbort(sender) ==
    IF sender # resolver_owner THEN ResolverAbort(RESOLVER_E_UNAUTHORIZED) ELSE Ok

\* a call to a deploy function: its sender, the values of the two coins it was
\* handed, and its outcome
DeployCall(op, sender, deposit_coin, safety_coin, abort) ==
    [op |-> op, sender |-> sender, deposit_coin |-> deposit_coin,
     safety_coin |-> safety_coin, abort |-> abort]

\* a call to deposit_to_escrow or transfer_ownership: its sender, the new owner
\* it named (NoAddress when it names none), and its outcome
OwnerCall(op, sender, new_owner, abort) ==
    [op |-> op, sender |-> sender, new_owner |-> new_owner, abort |-> abort]

\* the body the two deploy functions share: the owner assert, escrow::create,
\* and the transfer of both coins to the resolver's owner
deploy_with_deposit(op) ==
    /\ ~created
    /\ \E sender \in Addr, hl \in HashLocks, maker \in Makers, taker \in Takers,
          amount \in Amounts, sd \in Amounts, tl \in TimeLockChoices,
          deposit_coin \in Amounts, safety_coin \in Amounts :
          LET a == OwnerAbort(sender) IN
          /\ last' = DeployCall(op, sender, deposit_coin, safety_coin, a)
          /\ IF a = Ok
             THEN /\ immutables' = create_src_immutables(hl, maker, taker, amount, sd, tl)
                  /\ created' = TRUE
                  /\ deposited_amount' = 0
                  /\ safety_deposit' = 0
                  /\ is_completed' = FALSE
                  /\ t0' = current_time
                  /\ owner_coins' = [principal |-> owner_coins.principal + deposit_coin,
                                     safety |-> owner_coins.safety + safety_coin]
             ELSE UNCHANGED <<escrowVars, t0, owner_coins>>
    /\ UNCHANGED <<clock_ms, events, payout, ethVars, lopVars, resolver_owner>>

\* resolver::deploy_src_with_deposit
DeploySrcWithDeposit == deploy_with_deposit("deploy_src_with_deposit")

\* resolver::deploy_dst_with_deposit (src_cancellation_timestamp goes into the
\* event only)
DeployDstWithDeposit == deploy_with_deposit("deploy_dst_with_deposit")

\* resolver::deposit_to_escrow: the owner assert, then escrow::deposit
DepositToEscrow ==
    /\ created
    /\ \E sender \in Addr, coin \in 0..MaxBalance, safety_coin \in 0..MaxBalance :
          LET a == IF OwnerAbort(sender) # Ok THEN OwnerAbort(sender)
                   ELSE DepositAbort(sender)
          IN /\ last' = OwnerCall("deposit_to_escrow", sender, NoAddress, a)
             /\ IF a = Ok
                THEN /\ deposited_amount + coin <= MaxBalance
                     /\ safety_deposit + safety_coin <= MaxBalance
                     /\ deposited_amount' = deposited_amount + coin
                     /\ safety_deposit' = safety_deposit + safety_coin
                ELSE UNCHANGED <<deposited_amount, safety_deposit>>
    /\ UNCHANGED <<created, immutables, is_completed, clock_ms, t0, events, payout,
                   ethVars, moduleVars>>

\* resolver::transfer_ownership
TransferOwnership ==
    /\ \E sender \in Addr, new_owner \in NewOwners :
          LET a == OwnerAbort(sender) IN
          /\ last' = OwnerCall("transfer_ownership", sender, new_owner, a)
          /\ IF a = Ok
             THEN resolver_owner' = new_owner
             ELSE UNCHANGED resolver_owner
    /\ UNCHANGED <<escrowVars, clock_ms, t0, events, payout, ethVars, lopVars, owner_coins>>

\* the functions of the resolver, whose withdraw and cancel hand the call on
\* to escrow::withdraw and escrow::cancel, and the ledger clock
ResolverNext ==
    \/ Tick
    \/ DeploySrcWithDeposit
    \/ DeployDstWithDeposit
    \/ DepositToEscrow
    \/ Withdraw
    \/ Cancel
    \/ TransferOwnership

ResolverSpec == Init /\ [][ResolverNext]_vars

(* ---------------------------------------------------------------- claims *)

\* seconds elapsed since escrow::create ran
Elapsed == current_time - t0

\* the lifecycle state of the escrow, derived from is_completed and the
\* principal balance
EscrowState ==
    IF ~created THEN "None"
    ELSE IF is_completed THEN (IF payout.op = "withdraw" THEN "Withdrawn" ELSE "Cancelled")
    ELSE IF deposited_amount > 0 THEN "Funded"
    ELSE "Created"

\* the ordering the specification demands of a schedule's src_* offsets
StrictlyOrdered(tl) ==
    /\ tl.src_withdrawal < tl.src_public_withdrawal
    /\ tl.src_public_withdrawal < tl.src_cancellation
    /\ tl.src_cancellation < tl.src_public_cancellation

\* the ordering the specification demands of all seven offsets
MonotoneTimeLocks(tl) ==
    /\ StrictlyOrdered(tl)
    /\ tl.dst_withdrawal < tl.dst_public_withdrawal
    /\ tl.dst_public_withdrawal < tl.dst_cancellation

\* the escrow was created with a strictly ordered schedule, the only kind
\* the specification admits
Ordered == StrictlyOrdered(immutables.time_locks)

\* the terminal call paid out exactly what the immutables announce
PaidInFull ==
    /\ payout.principal = immutables.amount
    /\ payout.safety = immutables.safety_deposit

\* a step that is a call of op (the clock's ticks leave `last` alone)
IsCall(op) == last'.op = op /\ (last.op # op \/ last' # last)

\* C1: the preimage carried by every Withdrawn event hashes to the escrow's
\* hash_lock.
C1_HashlockSoundness ==
    \A i \in 1..Len(events) :
        events[i].type = "Withdrawn" => Keccak256(events[i].secret) = immutables.hash_lock

C1_Witness ==
    /\ is_completed
    /\ \E i \in 1..Len(events) : events[i].type = "Withdrawn"
    /\ PaidInFull
    /\ Ordered

\* C2: at most one withdraw-or-cancel ever succeeds; from a completed escrow
\* every deposit, withdraw or cancel aborts with EscrowCompleted and leaves
\* the balances, the flag, the events and the payout as they were.
C2_OneTerminalOp ==
    /\ [](Len(events) <= 1 /\ (is_completed <=> Len(events) = 1))
    /\ [][is_completed =>
            /\ UNCHANGED <<deposited_amount, safety_deposit, is_completed, events, payout>>
            /\ (last' # last =>
                  /\ last'.op \in {"deposit", "withdraw", "cancel"}
                  /\ last'.abort = Abort(E_ESCROW_COMPLETED))]_vars

C2_Witness ==
    /\ is_completed
    /\ payout.op = "withdraw"
    /\ last.op = "cancel"
    /\ last.abort = Abort(E_ESCROW_COMPLETED)
    /\ PaidInFull
    /\ Ordered
    /\ current_time >= immutables.time_locks.src_public_cancellation

\* C3: a terminal withdraw or cancel is only ever taken from Funded, never
\* from an escrow that is still Created (stated for the strictly ordered
\* schedules).
C3_TerminalOnlyFromFunded ==
    [][(~is_completed /\ is_completed' /\ Ordered) => EscrowState = "Funded"]_vars

\* C4: the principal the terminal call paid out equals immutables.amount and
\* the safety deposit it paid out equals immutables.safety_deposit (stated
\* for the strictly ordered schedules).
C4_PayoutEqualsImmutables ==
    (is_completed /\ Ordered) => PaidInFull

\* C5: a successful cancel hands the principal to immutables.maker, whoever
\* called it (stated for escrows with a strictly ordered schedule that were
\* funded with exactly the announced amounts).
C5_CancelRefundsMaker ==
    (payout.op = "cancel" /\ Ordered /\ PaidInFull) => payout.holder = immutables.maker

\* C6: cancel succeeds for the taker only at least src_cancellation seconds
\* after creation, and for anyone else only at least src_public_cancellation
\* seconds after creation (stated for escrows with a strictly ordered
\* schedule that were funded with exactly the announced amounts).
C6_CancelAfterElapsed ==
    (payout.op = "cancel" /\ Ordered /\ PaidInFull) =>
        IF payout.holder = immutables.taker
        THEN Elapsed >= immutables.time_locks.src_cancellation
        ELSE Elapsed >= immutables.time_locks.src_public_cancellation

\* C7: withdraw succeeds for an address other than the taker only once the
\* clock has reached src_public_withdrawal (stated for escrows with a
\* strictly ordered schedule that were funded with exactly the announced
\* amounts, and for the clock itself, which is never behind the elapsed time).
C7_PublicWithdrawGated ==
    (payout.op = "withdraw" /\ payout.holder # immutables.taker
        /\ Ordered /\ PaidInFull) =>
        current_time >= immutables.time_locks.src_public_withdrawal

\* C8: withdraw succeeds for the taker only at least src_withdrawal seconds
\* after the escrow was created (stated for escrows with a strictly ordered
\* schedule that were funded with exactly the announced amounts).
C8_WithdrawRelativeToCreation ==
    (payout.op = "withdraw" /\ payout.holder = immutables.taker
        /\ Ordered /\ PaidInFull) =>
        Elapsed >= immutables.time_locks.src_withdrawal

\* C9: on a funded, uncompleted escrow whose two cancellation offsets have
\* both elapsed, withdraw with the correct secret succeeds, whoever calls.
C9_WithdrawStillOpen ==
    [][(/\ IsCall("withdraw")
        /\ EscrowState = "Funded"
        /\ Keccak256(last'.secret) = immutables.hash_lock
        /\ Elapsed >= immutables.time_locks.src_cancellation
        /\ Elapsed >= immutables.time_locks.src_public_cancellation)
       => last'.abort = Ok]_vars

\* With a strictly ordered schedule the withdrawal offset has elapsed before
\* either cancellation offset, and the same call does succeed.
WithdrawStillOpenWhenOrdered ==
    [][(/\ IsCall("withdraw")
        /\ Ordered
        /\ EscrowState = "Funded"
        /\ Keccak256(last'.secret) = immutables.hash_lock
        /\ Elapsed >= immutables.time_locks.src_cancellation
        /\ Elapsed >= immutables.time_locks.src_public_cancellation)
       => last'.abort = Ok]_vars

\* C10: on an escrow that is not completed, withdraw with bytes that do not
\* hash to hash_lock aborts with InvalidSecret, whoever calls and whatever
\* the clock reads, and leaves the balances and is_completed as they were.
C10_BadSecretRejected ==
    [][(/\ IsCall("withdraw")
        /\ ~is_completed
        /\ Keccak256(last'.secret) # immutables.hash_lock)
       => /\ last'.abort = Abort(E_INVALID_SECRET)
          /\ UNCHANGED <<deposited_amount, safety_deposit, is_completed, events, payout>>]_vars

C10_Witness ==
    /\ last.op = "withdraw"
    /\ last.sender = immutables.taker
    /\ Keccak256(last.secret) # immutables.hash_lock
    /\ last.abort = Abort(E_INVALID_SECRET)
    /\ EscrowState = "Funded"
    /\ current_time < immutables.time_locks.src_withdrawal

\* C11: a deposit that succeeds on an escrow holding nothing adds exactly
\* immutables.amount to the principal balance and exactly
\* immutables.safety_deposit to the safety balance (stated for the strictly
\* ordered schedules).
C11_DepositExactAmounts ==
    [][(/\ IsCall("deposit")
        /\ last'.abort = Ok
        /\ Ordered
        /\ deposited_amount = 0
        /\ safety_deposit = 0)
       => /\ deposited_amount' = immutables.amount
          /\ safety_deposit' = immutables.safety_deposit]_vars

\* C12: an uncompleted escrow that holds exactly its announced principal and
\* safety deposit never gains more principal (stated for the strictly
\* ordered schedules).
C12_FundedAtMostOnce ==
    [][(/\ created
        /\ ~is_completed
        /\ Ordered
        /\ deposited_amount = immutables.amount
        /\ safety_deposit = immutables.safety_deposit)
       => deposited_amount' <= immutables.amount]_vars

\* C13: the TimeLocks held by an escrow satisfy src_withdrawal <
\* src_public_withdrawal < src_cancellation < src_public_cancellation and
\* dst_withdrawal < dst_public_withdrawal < dst_cancellation.
C13_TimeLocksMonotone ==
    created => MonotoneTimeLocks(immutables.time_locks)

\* a step that is a call of op to the coordinator which returned
Returned(op) == IsCall(op) /\ last'.abort = Ok

\* C14: a secret that is marked revealed stays marked; a
\* withdrawWithCoordinatedSecret that returns marks the secret it consumed;
\* and no withdrawWithCoordinatedSecret (for whatever escrow id) and no
\* withdrawWithSuiSecret returns for a secret that is already marked --
\* whatever coordinate, batch, register and reset calls come in between.
C14_OneShotConsumption ==
    [][/\ \A x \in SecretWords : revealedSecrets[x] => revealedSecrets'[x]
       /\ Returned("withdrawWithCoordinatedSecret") => revealedSecrets'[last'.secret]
       /\ (Returned("withdrawWithCoordinatedSecret") \/ Returned("withdrawWithSuiSecret"))
            => ~revealedSecrets[last'.secret]]_vars

\* withdrawWithCoordinatedSecret returned for an escrow id, consuming its
\* secret, and a later withdrawWithCoordinatedSecret reverted because the
\* secret was used
C14_Witness ==
    /\ last.op = "withdrawWithCoordinatedSecret"
    /\ last.abort = Revert("Secret already used")
    /\ \E id \in EscrowIds :
          /\ coordinationStatus[id] = "SECRET_USED_ON_ETHEREUM"
          /\ liveSecrets[id] # 0
          /\ secretCoordinated[liveSecrets[id]]
          /\ revealedSecrets[liveSecrets[id]]

\* C15: coordinateSecretFromSui returns only for a secret that was not
\* coordinated, and a coordinateSecretFromSui that reverts leaves every
\* store of the coordinator as it was.
C15_CoordinateOnce ==
    [][/\ Returned("coordinateSecretFromSui") => ~secretCoordinated[last'.secret]
       /\ (IsCall("coordinateSecretFromSui") /\ last'.abort # Ok)
            => UNCHANGED coordVars]_vars

\* a coordinateSecretFromSui reverted on a secret that is live for an escrow
\* id and not yet consumed
C15_Witness ==
    /\ last.op = "coordinateSecretFromSui"
    /\ last.abort = Revert("Secret already coordinated")
    /\ \E id \in EscrowIds :
          /\ liveSecrets[id] # 0
          /\ secretCoordinated[liveSecrets[id]]
          /\ ~revealedSecrets[liveSecrets[id]]
          /\ coordinationStatus[id] = "SECRET_COORDINATED"

\* C16: the Sui-escrow/order mapping is a bijection: every escrow id with an
\* order is the escrow id of that order, and every order with an escrow id is
\* the order of that escrow id.
C16_MappingBijection ==
    /\ \A id \in EscrowIds :
          suiEscrowToOrder[id] # 0 => orderToSuiEscrow[suiEscrowToOrder[id]] = id
    /\ \A o \in OrderHashes :
          orderToSuiEscrow[o] # 0 => suiEscrowToOrder[orderToSuiEscrow[o]] = o

\* an endpoint of the pair already maps to a different counterpart
Conflicting(suiEscrowId, ethereumOrderHash) ==
    \/ suiEscrowToOrder[suiEscrowId] \notin {0, ethereumOrderHash}
    \/ orderToSuiEscrow[ethereumOrderHash] \notin {0, suiEscrowId}

\* C17: registerCrossChainMapping never returns for a pair in which either
\* endpoint already maps to a different counterpart.
C17_ConflictingPairRejected ==
    [][Returned("registerCrossChainMapping")
         => ~Conflicting(last'.id, last'.order)]_vars

\* Registering a pair that is already mapped, both ways, changes neither
\* direction of the mapping.
RegisterSamePairNoOp ==
    [][(/\ Returned("registerCrossChainMapping")
        /\ suiEscrowToOrder[last'.id] = last'.order
        /\ orderToSuiEscrow[last'.order] = last'.id)
       => UNCHANGED <<suiEscrowToOrder, orderToSuiEscrow>>]_vars

\* C18: a secret that is both coordinated and revealed stays both, whatever
\* the step.
C18_ConsumedIsPermanent ==
    [][\A x \in SecretWords :
          (secretCoordinated[x] /\ revealedSecrets[x])
            => (secretCoordinated'[x] /\ revealedSecrets'[x])]_vars

\* C19: no secret word is both coordinated from Sui (the forward direction)
\* and marked used on Sui (the reverse direction).
C19_NoSecretInBothDirections ==
    \A x \in SecretWords : ~(secretCoordinated[x] /\ secretUsedOnSui[x])

\* the step is a coordination that returned and named suiEscrowId
CoordinatedFor(suiEscrowId) ==
    \/ Returned("coordinateSecretFromSui") /\ last'.id = suiEscrowId
    \/ /\ Returned("batchCoordinateSecrets")
       /\ \E i \in 1..Len(last'.id) : last'.id[i] = suiEscrowId

\* C20: withdrawWithCoordinatedSecret returns for an escrow id only while a
\* coordinated secret is stored under that id; a secret comes to be stored
\* under an id only by a coordinateSecretFromSui or batchCoordinateSecrets
\* call for that id that returned; and an emergencyResetCoordination that
\* returned leaves no secret stored under its id.
C20_CoordinateBeforeWithdraw ==
    [][/\ Returned("withdrawWithCoordinatedSecret")
            => /\ liveSecrets[last'.id] # 0
               /\ secretCoordinated[liveSecrets[last'.id]]
       /\ \A id \in EscrowIds :
            (liveSecrets[id] = 0 /\ liveSecrets'[id] # 0) => CoordinatedFor(id)
       /\ Returned("emergencyResetCoordination")
            => liveSecrets'[last'.id] = 0]_vars

\* withdrawWithCoordinatedSecret returned for an escrow id whose secret was
\* coordinated longer ago than the timeout and never reset, while the other
\* escrow id has been reset
C20_Witness ==
    /\ last.op = "withdrawWithCoordinatedSecret"
    /\ last.abort = Ok
    /\ liveSecrets[last.id] = last.secret
    /\ secretCoordinated[last.secret]
    /\ block_timestamp > secretTimestamp[last.secret] + COORDINATION_TIMEOUT
    /\ coordinationStatus[last.id] = "SECRET_USED_ON_ETHEREUM"
    /\ \E id \in NonZero(EscrowIds) : coordinationStatus[id] = "RESET"

\* C21: an emergencyResetCoordination call returns only for the owner and only
\* when the block time is past secretTimestamp + COORDINATION_TIMEOUT of the
\* secret stored under the id; after it the liveSecrets, secretCoordinated,
\* secretTimestamp and secretCoordinator entries of that row are cleared and
\* coordinationStatus of the id is EMERGENCY_RESET.
C21_ResetOwnerTimeoutClears ==
    [][Returned("emergencyResetCoordination")
         => /\ last'.sender = Owner
            /\ block_timestamp > secretTimestamp[last'.secret] + COORDINATION_TIMEOUT
            /\ liveSecrets'[last'.id] = 0
            /\ ~secretCoordinated'[last'.secret]
            /\ secretTimestamp'[last'.secret] = 0
            /\ secretCoordinator'[last'.secret] = NoAddress
            /\ coordinationStatus'[last'.id] = "EMERGENCY_RESET"]_vars

\* Ed25519 verification proper: of the byte strings of the model, only the
\* validator's own signature of the message verifies under the validator's key
Ed25519Verify(publicKey, message, signature) ==
    /\ signature.length = SIGNATURE_LENGTH
    /\ publicKey.length = PUBLIC_KEY_LENGTH
    /\ signature.content = "signed"

\* the stakes of the signatures at the indices I, summed
RECURSIVE SumStake(_, _)
SumStake(signatures, I) ==
    IF I = {} THEN 0
    ELSE LET i == CHOOSE j \in I : TRUE
         IN signatures[i].stake + SumStake(signatures, I \ {i})

total_stake(signatures) == SumStake(signatures, DOMAIN signatures)
signed_stake(checkpointHash, signatures) ==
    SumStake(signatures,
             {i \in DOMAIN signatures :
                Ed25519Verify(signatures[i].publicKey, checkpointHash, signatures[i].signature)})

\* signed_stake * 10000 >= total_stake * 6667
TwoThirdsSigned(checkpointHash, signatures) ==
    signed_stake(checkpointHash, signatures) * 10000 >= total_stake(signatures) * 6667

\* C22: verifySuiCheckpoint on a checkpoint that is not yet verified returns
\* (and marks the checkpoint verified) if and only if the stake of the
\* signatures that verify, times 10000, is at least the stake of all presented
\* signatures times 6667; otherwise it reverts with InsufficientStake and the
\* checkpoint stays unverified.
C22_CheckpointThreshold ==
    [][(IsCall("verifySuiCheckpoint") /\ ~verifiedCheckpoints[last'.checkpointHash])
         => IF TwoThirdsSigned(last'.checkpointHash, last'.signatures)
            THEN /\ last'.abort = Ok
                 /\ verifiedCheckpoints'[last'.checkpointHash]
            ELSE /\ last'.abort = Revert("InsufficientStake")
                 /\ ~verifiedCheckpoints'[last'.checkpointHash]]_vars

\* C23: verifySuiCheckpoint for a checkpoint hash that was accepted before,
\* called with a signature list whose verifying stake is below the threshold
\* (a signature that verified has been corrupted), does not return true.
C23_ReevaluationFails ==
    [][(/\ IsCall("verifySuiCheckpoint")
        /\ verifiedCheckpoints[last'.checkpointHash]
        /\ ~TwoThirdsSigned(last'.checkpointHash, last'.signatures))
         => last'.abort # Ok]_vars

\* the root a Merkle path leads to: at each step the running hash and the
\* sibling are concatenated smaller first and hashed
RECURSIVE PathRoot(_, _)
PathRoot(h, path) ==
    IF path = <<>> THEN h
    ELSE LET sibling == Head(path)
             lo == IF h < sibling THEN h ELSE sibling
             hi == IF h < sibling THEN sibling ELSE h
         IN PathRoot(keccak256Packed(lo, hi), Tail(path))

\* C24: a transaction hash becomes verified only in a verifySuiTransaction
\* call that returns, for a proof whose checkpoint hash is already verified
\* and whose Merkle path leads from the transaction hash to the checkpoint
\* hash; a checkpoint hash becomes verified only in a verifySuiCheckpoint call
\* for it; and no step takes a verified checkpoint or transaction back.
C24_VerifiedOnlyGrows ==
    [][/\ \A h \in Hashes : verifiedCheckpoints[h] => verifiedCheckpoints'[h]
       /\ \A t \in Hashes : verifiedTransactions[t] => verifiedTransactions'[t]
       /\ \A t \in Hashes :
            (~verifiedTransactions[t] /\ verifiedTransactions'[t])
              => /\ Returned("verifySuiTransaction")
                 /\ last'.proof.transactionHash = t
                 /\ verifiedCheckpoints[last'.proof.checkpointHash]
                 /\ PathRoot(t, last'.proof.merkleProof) = last'.proof.checkpointHash
       /\ \A h \in Hashes :
            (~verifiedCheckpoints[h] /\ verifiedCheckpoints'[h])
              => /\ Returned("verifySuiCheckpoint")
                 /\ last'.checkpointHash = h]_vars

\* verifySuiTransaction returned for a transaction hash other than the
\* checkpoint hash, with a Merkle proof of one element, and the transaction
\* is verified
C24_Witness ==
    /\ last.op = "verifySuiTransaction"
    /\ last.abort = Ok
    /\ Len(last.proof.merkleProof) >= 1
    /\ last.proof.transactionHash # last.proof.checkpointHash
    /\ verifiedCheckpoints[last.proof.checkpointHash]
    /\ verifiedTransactions[last.proof.transactionHash]
    /\ \E h \in Hashes : ~verifiedTransactions[h]

\* C25: against the root of the tree create_merkle_tree built over N >= 1
\* secrets, verify_merkle_proof is true for leaf i of the tree with the
\* sibling path of leaf i at index i, for every i below N, and false when the
\* leaf or elements of that path are replaced by different values.
C25_MerkleRoundTrip ==
    (last.op = "verify_merkle_proof" /\ last.index < Len(merkle_tree.leaves))
      => LET L == merkle_tree.leaves[last.index + 1]
             path == sibling_path(merkle_tree.leaves, last.index)
         IN /\ (last.leaf = L /\ last.proof = path) => last.result
            /\ (Len(last.proof) = Len(path) /\ (last.leaf # L \/ last.proof # path))
                 => ~last.result

\* the third leaf of a tree over three secrets, the leaf that is paired with
\* itself, verified with its two-element sibling path
C25_Witness ==
    /\ last.op = "verify_merkle_proof"
    /\ Len(merkle_tree.leaves) = 3
    /\ last.index = 2
    /\ last.leaf = merkle_tree.leaves[3]
    /\ last.proof = sibling_path(merkle_tree.leaves, 2)
    /\ last.proof[1] = last.leaf
    /\ Len(last.proof) = merkle_tree.depth
    /\ last.result

\* C26: the fill_percentage an order has accumulated over its successful
\* execute_partial_fill calls never exceeds 10000 basis points.
C26_FillWithinWhole == partial_order.fill_percentage <= 10000

\* the functions of the resolver that only its owner may call
OwnerOnlyOps ==
    {"deploy_src_with_deposit", "deploy_dst_with_deposit", "deposit_to_escrow",
     "transfer_ownership"}

\* C27: a call to deploy_src_with_deposit, deploy_dst_with_deposit,
\* deposit_to_escrow or transfer_ownership by anyone other than the Resolver's
\* current owner aborts with the resolver's Unauthorized and changes nothing,
\* and a call by the current owner never aborts with it; the owner changes
\* only by a transfer_ownership that returns, to the address it names, so the
\* previous owner is then refused and the new one is not.
C27_OwnerGated ==
    [][/\ \A op \in OwnerOnlyOps :
            IsCall(op) =>
                /\ (last'.sender # resolver_owner) <=>
                       (last'.abort = ResolverAbort(RESOLVER_E_UNAUTHORIZED))
                /\ last'.sender # resolver_owner =>
                       /\ resolver_owner' = resolver_owner
                       /\ owner_coins' = owner_coins
                       /\ escrowVars' = escrowVars
       /\ resolver_owner' # resolver_owner =>
            /\ Returned("transfer_ownership")
            /\ last'.sender = resolver_owner
            /\ resolver_owner' = last'.new_owner]_vars

\* the Publisher has handed the Resolver on and is refused a deploy
C27_Witness ==
    /\ last.op = "deploy_src_with_deposit"
    /\ last.sender = Publisher
    /\ last.abort = ResolverAbort(RESOLVER_E_UNAUTHORIZED)
    /\ resolver_owner # Publisher
    /\ ~created

\* C28: when a deploy_src_with_deposit or deploy_dst_with_deposit has
\* returned, the escrow it created holds the principal coin and the safety
\* deposit that the call was handed.
C28_DeployFunds ==
    (/\ last.op \in {"deploy_src_with_deposit", "deploy_dst_with_deposit"}
     /\ last.abort = Ok) =>
        /\ created
        /\ deposited_amount = last.deposit_coin
        /\ safety_deposit = last.safety_coin

\* coordinateSecretFromSui applied to the elements of a batch in order from
\* index i on, an element whose secret is already coordinated being skipped
RECURSIVE SequentialCoordinate(_, _, _, _, _, _)
SequentialCoordinate(st, suiEscrowIds, secrets, ethereumOrderHashes, i, sender) ==
    IF i > Len(suiEscrowIds) THEN st
    ELSE SequentialCoordinate(
            IF ~st.secretCoordinated[secrets[i]]
            THEN coordinateSecretFromSui(st, suiEscrowIds[i], secrets[i],
                                         ethereumOrderHashes[i], sender)
            ELSE st,
            suiEscrowIds, secrets, ethereumOrderHashes, i + 1, sender)

\* C29: a batchCoordinateSecrets that returns was given non-zero secrets and
\* escrow ids only, and leaves the coordinator's storage (secret stores,
\* status, the two mapping directions and the exists flag) as applying
\* coordinateSecretFromSui to each element in order would, elements with an
\* already coordinated secret being skipped.
C29_BatchIsSequential ==
    [][Returned("batchCoordinateSecrets") =>
          /\ \A i \in DOMAIN last'.id : last'.id[i] # 0 /\ last'.secret[i] # 0
          /\ stores' = SequentialCoordinate(stores, last'.id, last'.secret,
                                            last'.order, 1, last'.sender)]_vars

\* the closed set of status tags, each under its ledger-neutral name and under
\* the name the Ethereum contracts give it
StatusTags ==
    {"SECRET_COORDINATED", "SECRET_AVAILABLE_CROSS_CHAIN", "MAPPING_REGISTERED",
     "LOCAL_WITHDRAWAL_COMPLETE", "ETHEREUM_WITHDRAWAL_COMPLETE",
     "CANCELLED", "EMERGENCY_RESET", "BIDIRECTIONAL_COMPLETED",
     "FOREIGN_ESCROW_INITIATED", "SUI_ESCROW_INITIATED", "ETHEREUM_ESCROW_INITIATED"}

\* C30: every non-empty value stored in coordinationStatus is one of the
\* predefined status tags.
C30_StatusClosed ==
    \A id \in EscrowIds :
        coordinationStatus[id] # "" => coordinationStatus[id] \in StatusTags

\* C31: the membership flag of an order hash is set exactly when
\* orderToSuiEscrow holds a non-zero Sui escrow id for it.
C31_ExistsIffMapped ==
    \A o \in OrderHashes :
        crossChainMappingExists[o] <=> (orderToSuiEscrow[o] # 0)

\* C32: a step that is not a returning emergencyResetCoordination clears no
\* secret entry (the live secret of an escrow id, the coordinated flag, the
\* timestamp and the coordinator of a secret) and no entry of the two
\* directions of the order/escrow mapping.
C32_OnlyResetDestroys ==
    [][~Returned("emergencyResetCoordination") =>
          /\ \A id \in EscrowIds :
                /\ liveSecrets[id] # 0 => liveSecrets'[id] # 0
                /\ suiEscrowToOrder[id] # 0 => suiEscrowToOrder'[id] # 0
          /\ \A s \in SecretWords :
                /\ secretCoordinated[s] => secretCoordinated'[s]
                /\ secretTimestamp[s] # 0 => secretTimestamp'[s] # 0
                /\ secretCoordinator[s] # NoAddress => secretCoordinator'[s] # NoAddress
          /\ \A o \in OrderHashes :
                orderToSuiEscrow[o] # 0 => orderToSuiEscrow'[o] # 0]_vars

\* the 32 bytes of a word read as a byte string: a string other than the
\* secret strings, so that no word is its own preimage
WordAsString(w) == <<w + MaxSecret + 2>>

\* C33: a revealEthereumSecret that returns was called for an existing, active
\* order that had no revealed secret yet, with a string whose Keccak-256 is
\* the order's secretHash, and the value it stores under the order for the
\* Sui side is that preimage: a value whose Keccak-256 is the secretHash.
C33_RevealPublishesPreimage ==
    [][Returned("revealEthereumSecret") =>
          LET o == last'.order
              published == WordAsString(ethereumRevealedSecrets'[o]) IN
          /\ ethereumOrderExists[o]
          /\ ethereumEscrowActive[o]
          /\ keccak256(last'.secret) = ethereumEscrows[o].secretHash
          /\ ethereumRevealedSecrets[o] = 0
          /\ published = last'.secret
          /\ keccak256(published) = ethereumEscrows[o].secretHash]_vars

\* C34: the link of the reverse direction is one-to-one: the Sui escrow an
\* order hash is linked to is linked back to that order hash, and no two
\* order hashes are linked to the same Sui escrow.
C34_ReverseLinkBijection ==
    /\ \A o \in LocalOrders :
          ethereumOrderToSuiEscrow[o] # 0 =>
              suiEscrowToEthereumOrder[ethereumOrderToSuiEscrow[o]] = o
    /\ \A o1, o2 \in LocalOrders :
          (/\ ethereumOrderToSuiEscrow[o1] # 0
           /\ ethereumOrderToSuiEscrow[o1] = ethereumOrderToSuiEscrow[o2]) => o1 = o2

\* C35: an execute_partial_fill that passes the asserts of the validation
\* (fill_percentage at most 10000 among them) returns, whatever u64 the
\* order's making_amount is, and what it returns is the whole part of
\* making_amount * fill_percentage / 10000.
C35_FillAmountExact ==
    [][(/\ IsCall("execute_partial_fill")
        /\ last'.abort \in {Ok, ArithmeticError}) =>
          /\ last'.abort = Ok
          /\ last'.fill_amount =
                div_10000(times(partial_order.making_amount, last'.fill_percentage))]_vars

\* C36: once the clock has reached src_public_cancellation, cancel returns for
\* every caller on an escrow that is not terminal; and with a clock that keeps
\* advancing and a cancel that is sent when it can return, an escrow that
\* exists and is not terminal becomes terminal, with both balances paid out.
C36_EventuallyClosed ==
    /\ [](/\ created
          /\ ~is_completed
          /\ current_time >= immutables.time_locks.src_public_cancellation
          => \A sender \in Addr : CancelAbort(sender) = Ok)
    /\ (created /\ ~is_completed)
           ~> (is_completed /\ deposited_amount = 0 /\ safety_deposit = 0)

\* C37: when an execute_partial_fill has returned for a secret and its index,
\* the next execute_partial_fill on the order with the same secret and the
\* same index aborts and fills nothing.
C37_LeafFillsOnce ==
    [][(/\ last.op = "execute_partial_fill"
        /\ last.abort = Ok
        /\ last'.op = "execute_partial_fill"
        /\ last'.secret = last.secret
        /\ last'.secret_index = last.secret_index) =>
          /\ last'.abort # Ok
          /\ partial_order' = partial_order]_vars

\* C38: the live secret of an escrow id, once set, changes only in an
\* emergencyResetCoordination of that id that returns: no
\* coordinateSecretFromSui or batchCoordinateSecrets with another secret
\* replaces it.
C38_LiveSecretKept ==
    [][\A id \in EscrowIds :
          (liveSecrets[id] # 0 /\ liveSecrets'[id] # liveSecrets[id]) =>
              /\ Returned("emergencyResetCoordination")
              /\ last'.id = id]_vars

\* C39: a verifySuiCheckpoint of a checkpoint that is not yet verified, with
\* signatures whose stakes add up to zero (the empty list among them), does
\* not return and leaves the checkpoint unverified.
C39_NoStakeNoCheckpoint ==
    [][(/\ IsCall("verifySuiCheckpoint")
        /\ ~verifiedCheckpoints[last'.checkpointHash]
        /\ total_stake(last'.signatures) = 0) =>
          /\ last'.abort # Ok
          /\ ~verifiedCheckpoints'[last'.checkpointHash]]_vars

\* C40: an order of the reverse direction whose row is inactive is not
\* completed: a completeSuiWithdrawalFromEthereumSecret returns only for an
\* active order, no step (the COMPLETE operation of batchProcessBidirectional
\* included) marks the revealed secret of an existing, inactive order used,
\* and a status EMERGENCY_CANCELLED never becomes BIDIRECTIONAL_COMPLETED.
C40_InactiveNeverCompletes ==
    [][/\ Returned("completeSuiWithdrawalFromEthereumSecret") =>
              ethereumEscrowActive[last'.order]
       /\ \A o \in LocalOrders :
            /\ (/\ ethereumOrderExists[o]
                /\ ~ethereumEscrowActive[o]
                /\ ethereumRevealedSecrets[o] # 0) =>
                   secretUsedOnSui'[ethereumRevealedSecrets[o]] =
                       secretUsedOnSui[ethereumRevealedSecrets[o]]
            /\ bidirectionalStatus[o] = "EMERGENCY_CANCELLED" =>
                   bidirectionalStatus'[o] # "BIDIRECTIONAL_COMPLETED"]_vars

====
